---- MODULE Spec2Model ----
(***************************************************************************)
(* Reconciliation of a SQL table with a Smartsheet sheet, as implemented   *)
(* by SmartsheetIntegration in src/mssqlx/clients/smartsheet_io.py.        *)
(*                                                                         *)
(* The module models the two stores, the two pandas snapshots loaded by    *)
(* __init__, the three merge operations and the calls they make on the two *)
(* clients.  The name `pd` used by the merge operations is read as the     *)
(* pandas module, as in the sibling copy src/mssqlx/clients/ssint.py.      *)
(* The clients may fail: a load of __init__, the sheet's create-call and   *)
(* update-call, and a call of execute_sql_query.  The module also models   *)
(* the table loader of src/mssqlx/_core.py (dataframe_to_table and         *)
(* get_table_dataframe).                                                   *)
(***************************************************************************)
EXTENDS Integers, Sequences, FiniteSets, TLC

(***************************************************************************)
(* Python scalars.  Every value is a record of one shape so that values of *)
(* different Python types can be compared by TLC:                          *)
(*   t = "None" | "nan" | "int" | "float" | "str"                          *)
(*   n = the integer (t = "int") or the number of thousandths (t="float")  *)
(*   s = the characters of a string, one per element (t = "str")           *)
(* Numbers of the model are non-negative and have at most three decimals,  *)
(* none of them ending in a 5 in the third decimal (no rounding tie).      *)
(***************************************************************************)
PyNone == [t |-> "None", n |-> 0, s |-> << >>]

PyNaN == [t |-> "nan", n |-> 0, s |-> << >>]

PyInt(i) == [t |-> "int", n |-> i, s |-> << >>]

PyFloat(mils) == [t |-> "float", n |-> mils, s |-> << >>]

PyStr(chars) == [t |-> "str", n |-> 0, s |-> chars]

\* A raised exception, carried as a value through the pure operators.
PyErr(kind) == [t |-> "error", n |-> 0, s |-> <<kind>>]

IsErr(v) == v.t = "error"

IsNull(v) == v.t \in {"None", "nan"}

IsNumber(v) == v.t \in {"int", "float"}

\* The value of a number in thousandths.
Mils(v) == IF v.t = "int" THEN v.n * 1000 ELSE v.n

\* Python's ==  on two scalars: numbers compare by value across int and
\* float, nan equals nothing (itself included), None equals only None, a
\* string equals only the same string.
PyEq(a, b) ==
    IF a.t = "nan" \/ b.t = "nan" THEN FALSE
    ELSE IF IsNumber(a) /\ IsNumber(b) THEN Mils(a) = Mils(b)
    ELSE a.t = b.t /\ a.n = b.n /\ a.s = b.s

DigitChars == <<"0", "1", "2", "3", "4", "5", "6", "7", "8", "9">>

RECURSIVE NatToChars(_)
\* The decimal digits of a natural number.
NatToChars(i) ==
    IF i < 10 THEN <<DigitChars[i + 1]>>
    ELSE NatToChars(i \div 10) \o <<DigitChars[(i % 10) + 1]>>

\* format(x, '.2f') of a float given in thousandths: round to the nearest
\* hundredth, then integer part, point, exactly two digits.
Format2f(mils) ==
    LET h == (mils + 5) \div 10
    IN  NatToChars(h \div 100) \o <<".">> \o
        <<DigitChars[((h % 100) \div 10) + 1], DigitChars[(h % 10) + 1]>>

\* repr of a float given in thousandths: the shortest form, at least one
\* fractional digit ("12.0", "12.5", "12.25", "12.346").
FloatRepr(mils) ==
    LET ip == mils \div 1000
        fr == mils % 1000
        d1 == DigitChars[(fr \div 100) + 1]
        d2 == DigitChars[((fr % 100) \div 10) + 1]
        d3 == DigitChars[(fr % 10) + 1]
    IN  NatToChars(ip) \o <<".">> \o
        (IF fr % 100 = 0 THEN <<d1>>
         ELSE IF fr % 10 = 0 THEN <<d1, d2>>
         ELSE <<d1, d2, d3>>)

\* str(v)
PyStrOf(v) ==
    CASE v.t = "None"  -> <<"N", "o", "n", "e">>
      [] v.t = "nan"   -> <<"n", "a", "n">>
      [] v.t = "int"   -> NatToChars(v.n)
      [] v.t = "float" -> FloatRepr(v.n)
      [] v.t = "str"   -> v.s

DigitValue(c) == CHOOSE d \in 0..9 : DigitChars[d + 1] = c

IsDigit(c) == \E d \in 0..9 : DigitChars[d + 1] = c

RECURSIVE CharsToNat(_)
CharsToNat(cs) ==
    IF cs = << >> THEN 0
    ELSE CharsToNat(SubSeq(cs, 1, Len(cs) - 1)) * 10 + DigitValue(cs[Len(cs)])

AllDigits(cs) == \A i \in 1..Len(cs) : IsDigit(cs[i])

\* float(s) of a string: digits, optionally a point and up to three more
\* digits; the result in thousandths, or -1 when float() raises ValueError.
ParseFloat(cs) ==
    LET dots == {i \in 1..Len(cs) : cs[i] = "."}
    IN  IF dots = {} THEN
            IF cs # << >> /\ AllDigits(cs) THEN CharsToNat(cs) * 1000 ELSE -1
        ELSE IF Cardinality(dots) > 1 THEN -1
        ELSE LET p  == CHOOSE i \in dots : TRUE
                 ip == SubSeq(cs, 1, p - 1)
                 fp == SubSeq(cs, p + 1, Len(cs))
                 pad == fp \o SubSeq(<<"0", "0", "0">>, 1, 3 - Len(fp))
             IN  IF Len(cs) > 1 /\ Len(fp) <= 3 /\ AllDigits(ip) /\ AllDigits(fp)
                 THEN CharsToNat(ip) * 1000 + CharsToNat(pad)
                 ELSE -1

\* A variant of CurrencyText that writes str(v) as the other columns do; the
\* canonical-form property must reject it.
CurrencyTextPlain(v) == PyStr(PyStrOf(v))

\* str(format(float(v), '.2f')): the canonical currency text of a value.
\* float(None) raises TypeError, float of a non-numeric string ValueError,
\* and float('nan') formats as "nan".
CurrencyText(v) ==
    CASE v.t = "None"   -> PyErr("TypeError")
      [] v.t = "nan"    -> PyStr(<<"n", "a", "n">>)
      [] IsNumber(v)    -> PyStr(Format2f(Mils(v)))
      [] v.t = "str"    -> IF ParseFloat(v.s) < 0 THEN PyErr("ValueError")
                           ELSE PyStr(Format2f(ParseFloat(v.s)))


(***************************************************************************)
(* The column policy (columns_config): a dict in insertion order, one      *)
(* entry per sheet column.  `sql` and `constraint` are optional keys of an *)
(* entry; Absent stands for a key that is not in the dict.                 *)
(***************************************************************************)
Absent == "<absent>"

Entry(name, type, sql, constraint) ==
    [name |-> name, type |-> type, sql |-> sql, constraint |-> constraint]

\* column_config.get('sql', default)
GetSql(e, default) == IF e.sql = Absent THEN default ELSE e.sql

RECURSIVE Concat(_)
\* The concatenation of a sequence of sequences, by halves.
Concat(ss) ==
    IF ss = << >> THEN << >>
    ELSE IF Len(ss) = 1 THEN ss[1]
    ELSE LET h == Len(ss) \div 2
         IN  Concat(SubSeq(ss, 1, h)) \o Concat(SubSeq(ss, h + 1, Len(ss)))

\* The names of a policy's entries whose optional constraint is c and that
\* are not the primary key: checkbox_columns / currency_columns of __init__.
ConstraintColumns(config, c) ==
    LET keep(e) == e.type # "PRIMARY KEY" /\ e.constraint = c
    IN  [i \in 1..Len(SelectSeq(config, keep)) |-> SelectSeq(config, keep)[i].name]

InSeq(x, seq) == \E i \in 1..Len(seq) : seq[i] = x

\* The entries of type PRIMARY KEY, in dict order.
PrimaryKeyEntries(config) == SelectSeq(config, LAMBDA e : e.type = "PRIMARY KEY")

(***************************************************************************)
(* Data frames: [cols |-> names in order, rows |-> sequence of functions   *)
(* from the names to Python scalars].                                      *)
(***************************************************************************)
Frame(cols, rows) == [cols |-> cols, rows |-> rows]

ColSet(df) == {df.cols[i] : i \in 1..Len(df.cols)}

\* row[name] of a pandas row: KeyError when the row has no such label.
RowGet(row, name) == IF name \in DOMAIN row THEN row[name] ELSE PyErr("KeyError")

\* The dtype pandas gives a column built from a list of scalars: a column
\* holding numbers and nulls only (at least one number) is numeric; any
\* other column is an object column and keeps its values as they are.
NumericColumn(rows, c) ==
    /\ \E i \in 1..Len(rows) : IsNumber(rows[i][c])
    /\ \A i \in 1..Len(rows) : IsNumber(rows[i][c]) \/ IsNull(rows[i][c])

\* A numeric column that holds a float or a null is float64: its integers
\* read back as floats and its nulls as nan.
FloatColumn(rows, c) ==
    /\ NumericColumn(rows, c)
    /\ \E i \in 1..Len(rows) : rows[i][c].t = "float" \/ IsNull(rows[i][c])

AsFloat64(v) == IF IsNull(v) THEN PyNaN ELSE PyFloat(Mils(v))

\* DataFrame(data).infer_objects() and DataFrame.infer_objects(): every
\* column gets the dtype its values allow.
InferObjects(df) ==
    Frame(df.cols,
          [i \in 1..Len(df.rows) |->
              [c \in DOMAIN df.rows[i] |->
                  IF FloatColumn(df.rows, c) THEN AsFloat64(df.rows[i][c])
                  ELSE df.rows[i][c]]])

\* df.replace({np.nan: None})
ReplaceNaN(df) ==
    Frame(df.cols,
          [i \in 1..Len(df.rows) |->
              [c \in DOMAIN df.rows[i] |->
                  IF df.rows[i][c].t = "nan" THEN PyNone ELSE df.rows[i][c]]])

\* df.dropna(axis=0, how='all', subset=cols): drops the rows in which every
\* column of cols is null.
DropNaAll(df, cols) ==
    Frame(df.cols,
          SelectSeq(df.rows, LAMBDA r : \E i \in 1..Len(cols) : ~IsNull(r[cols[i]])))

(***************************************************************************)
(* pd.merge(left, right, how, left_on, right_on, suffixes=('_sql','_ss')). *)
(* A column name present in both frames gets the frame's suffix, except    *)
(* the join key when it has the same name on both sides (it stays a single *)
(* column).  The result keeps the order of the left rows; a left row with  *)
(* no match is kept by how='left' with nan in the right frame's columns.   *)
(***************************************************************************)
Overlap(left, right, left_on, right_on) ==
    (ColSet(left) \cap ColSet(right)) \ (IF left_on = right_on THEN {left_on} ELSE {})

LeftLabel(c, left, right, left_on, right_on) ==
    IF c \in Overlap(left, right, left_on, right_on) THEN c \o "_sql" ELSE c

RightLabel(c, left, right, left_on, right_on) ==
    IF c \in Overlap(left, right, left_on, right_on) THEN c \o "_ss" ELSE c

\* The right frame's columns that appear in the result.
RightKept(right, left_on, right_on) ==
    ColSet(right) \ (IF left_on = right_on THEN {right_on} ELSE {})

\* One row of the result: the left row l joined with the right row r.
JoinRow(l, r, left, right, left_on, right_on) ==
    LET LL(c) == LeftLabel(c, left, right, left_on, right_on)
        RL(c) == RightLabel(c, left, right, left_on, right_on)
        labels == {LL(c) : c \in ColSet(left)} \cup
                  {RL(c) : c \in RightKept(right, left_on, right_on)}
    IN  [x \in labels |->
            IF \E c \in ColSet(left) : LL(c) = x
            THEN l[CHOOSE c \in ColSet(left) : LL(c) = x]
            ELSE r[CHOOSE c \in RightKept(right, left_on, right_on) : RL(c) = x]]

\* The all-nan right row joined to an unmatched left row.
NaNRow(right) == [c \in ColSet(right) |-> PyNaN]

\* A join that pairs a left row with every right row, whatever the keys;
\* the orphan-row property must reject it.
JoinOfAny(l, left, right, how, left_on, right_on) ==
    [j \in 1..Len(right.rows) |->
        JoinRow(l, right.rows[j], left, right, left_on, right_on)]

\* The rows of the result that come from the left row l.
JoinOf(l, left, right, how, left_on, right_on) ==
    LET hits == SelectSeq(right.rows, LAMBDA r : PyEq(l[left_on], r[right_on]))
    IN  IF hits = << >> THEN
            IF how = "left"
            THEN <<JoinRow(l, NaNRow(right), left, right, left_on, right_on)>>
            ELSE << >>
        ELSE [j \in 1..Len(hits) |->
                JoinRow(l, hits[j], left, right, left_on, right_on)]

PdMerge(left, right, how, left_on, right_on) ==
    Concat([i \in 1..Len(left.rows) |->
               JoinOf(left.rows[i], left, right, how, left_on, right_on)])


(***************************************************************************)
(* State.                                                                  *)
(***************************************************************************)
VARIABLES
    columns_config,     \* the policy handed to __init__
    sheet,              \* the remote sheet: [columns, rows]
    sql_table,          \* the relational table, a Frame
    phase,              \* "new" before __init__, "ready" after it
    passes_left,        \* how many more engines the caller will construct
    primary_key_ss,     \* self.primary_key_ss (Absent while unset)
    primary_key_sql,    \* self.primary_key_sql (Absent while unset)
    currency_columns,   \* self.currency_columns
    checkbox_columns,   \* self.checkbox_columns
    sheet_columns,      \* self.sheet.columns, fetched once by __init__
    df_ss,              \* self.df_ss
    df_sql,             \* self.df_sql
    done,               \* the merge operations called on this engine
    raised,             \* operation -> the exception it raised, or "none"
    add_rows_calls,     \* the create-calls made on the sheet, in order
    update_rows_calls,  \* the update-calls made on the sheet, in order
    sql_calls,          \* the batches handed to execute_sql_query, in order
    insert_sources,     \* per create-call: the relational key each new row was built from
    pass_log,           \* per finished engine: the number of calls it made
    faults,             \* what the environment lets fail during the run
    init_raised,        \* the exception __init__ raised, or "none"
    loader              \* the calls of dataframe_to_table and get_table_dataframe

vars == <<columns_config, sheet, sql_table, phase, passes_left, primary_key_ss,
          primary_key_sql, currency_columns, checkbox_columns, sheet_columns,
          df_ss, df_sql, done, raised, add_rows_calls, update_rows_calls,
          sql_calls, insert_sources, pass_log, faults, init_raised, loader>>

Operations == {"merge_smartsheet_inserts", "merge_smartsheet_updates", "merge_sql_updates"}

NoneRaised == [op \in Operations |-> "none"]

\* The failures of the two stores' clients during a run: which load of
\* __init__ fails ("none", "sheet" or "table"), whether the sheet's create
\* call and update call fail, and which call of execute_sql_query fails
\* (0: none).
NoFaults == [load |-> "none", add_rows |-> FALSE, update_rows |-> FALSE, sql_at |-> 0]

(***************************************************************************)
(* The sheet behind the Smartsheet client.  A column is [title, id]; a row *)
(* is [id, cells] with cells a function from column ids to values.         *)
(***************************************************************************)
\* columns_dict of get_sheet_dataframe and column_map of get_column_id:
\* title -> id over the given columns (a later column of the same title
\* overwrites an earlier one).
ColumnMap(columns) ==
    [title \in {columns[i].title : i \in 1..Len(columns)} |->
        columns[CHOOSE i \in 1..Len(columns) :
                   /\ columns[i].title = title
                   /\ \A j \in 1..Len(columns) : columns[j].title = title => j <= i].id]

\* The titles in first-insertion order of the dict.
RECURSIVE TitlesInOrder(_, _)
TitlesInOrder(columns, seen) ==
    IF columns = << >> THEN << >>
    ELSE IF Head(columns).title \in seen THEN TitlesInOrder(Tail(columns), seen)
    ELSE <<Head(columns).title>> \o
         TitlesInOrder(Tail(columns), seen \cup {Head(columns).title})

\* SmartsheetClient.get_sheet_dataframe
get_sheet_dataframe(sh) ==
    LET columns_dict == ColumnMap(sh.columns)
        titles == TitlesInOrder(sh.columns, {})
        data == [i \in 1..Len(sh.rows) |->
                    [c \in {"RowID"} \cup DOMAIN columns_dict |->
                        IF c = "RowID" THEN PyInt(sh.rows[i].id)
                        ELSE sh.rows[i].cells[columns_dict[c]]]]
        df == InferObjects(Frame(<<"RowID">> \o titles, data))
    IN  DropNaAll(df, titles)

\* SqlServerClient.get_table_dataframe: SELECT * read into a frame, then
\* nan replaced by None.
get_table_dataframe(table) == ReplaceNaN(InferObjects(table))


(***************************************************************************)
(* SmartsheetIntegration.__init__                                          *)
(***************************************************************************)
\* The last PRIMARY KEY entry of the loop wins; with none the attribute is
\* never set.
InitPrimaryKeySs(config) ==
    LET pks == PrimaryKeyEntries(config)
    IN  IF pks = << >> THEN Absent ELSE pks[Len(pks)].name

InitPrimaryKeySql(config) ==
    LET pks == PrimaryKeyEntries(config)
    IN  IF pks = << >> THEN Absent
        ELSE GetSql(pks[Len(pks)], pks[Len(pks)].name)

\* The exception of a failing load: the sheet client raises on get_sheet
\* (lines 134 and 85, errors_as_exceptions of line 19), the database client
\* on read_sql_query.
LoadError(fault) ==
    IF fault = "sheet" THEN "ApiError"
    ELSE IF fault = "table" THEN "OperationalError"
    ELSE "none"

\* A constructor that hands out the engine whatever the loads did; the
\* abort-on-load-failure property must reject it.
ConstructedPhaseAlways(error) == "ready"

\* __init__ has no try block: an exception of a load leaves it, and the
\* caller holds no engine to call an operation on.
ConstructedPhase(error) == IF error = "none" THEN "ready" ELSE "failed"

\* __init__ raises nothing of its own for any policy: it reads the sheet,
\* sorts the columns into the constraint lists and loads the two snapshots,
\* the sheet first and the table second.  A failing load ends it there.
Construct ==
    /\ phase = "new"
    /\ passes_left > 0
    /\ phase' = ConstructedPhase(LoadError(faults.load))
    /\ init_raised' = LoadError(faults.load)
    /\ passes_left' = passes_left - 1
    /\ IF faults.load = "sheet"
       THEN UNCHANGED <<sheet_columns, primary_key_ss, primary_key_sql,
                        checkbox_columns, currency_columns, df_ss>>
       ELSE /\ sheet_columns' = sheet.columns
            /\ primary_key_ss' = InitPrimaryKeySs(columns_config)
            /\ primary_key_sql' = InitPrimaryKeySql(columns_config)
            /\ checkbox_columns' = ConstraintColumns(columns_config, "CHECKBOX")
            /\ currency_columns' = ConstraintColumns(columns_config, "CURRENCY")
            /\ df_ss' = get_sheet_dataframe(sheet)
    /\ IF faults.load = "none"
       THEN df_sql' = get_table_dataframe(sql_table)
       ELSE UNCHANGED df_sql
    /\ done' = {}
    /\ raised' = NoneRaised
    /\ add_rows_calls' = << >>
    /\ update_rows_calls' = << >>
    /\ sql_calls' = << >>
    /\ insert_sources' = << >>
    /\ UNCHANGED <<columns_config, sheet, sql_table, pass_log, faults, loader>>

\* The caller drops the engine and will build a fresh one for the next pass.
NewPass ==
    /\ phase = "ready"
    /\ passes_left > 0
    /\ done = Operations
    /\ phase' = "new"
    /\ pass_log' = Append(pass_log, [raised |-> raised,
                                     add_rows |-> Len(add_rows_calls),
                                     update_rows |-> Len(update_rows_calls),
                                     sql |-> Len(sql_calls)])
    /\ UNCHANGED <<columns_config, sheet, sql_table, passes_left, primary_key_ss,
                   primary_key_sql, currency_columns, checkbox_columns,
                   sheet_columns, df_ss, df_sql, done, raised, add_rows_calls,
                   update_rows_calls, sql_calls, insert_sources, faults,
                   init_raised, loader>>

(***************************************************************************)
(* get_column_id and build_smartsheet_row_new                              *)
(***************************************************************************)
\* get_column_id: the id of the titled column, KeyError when the sheet has
\* no such column.
get_column_id(columns, column_name) ==
    IF column_name \in DOMAIN ColumnMap(columns)
    THEN PyInt(ColumnMap(columns)[column_name])
    ELSE PyErr("KeyError")

CurrencyFormat == ",,,,,,,,,,,13,0,1,2,,"

Cell(column_id, value, strict, format) ==
    [column_id |-> column_id, value |-> value, strict |-> strict, format |-> format]

\* The value and validation mode build_smartsheet_row_new computes for one
\* policy entry, before the column id is resolved (strict = "skip" stands
\* for `continue`).
NewCellDraft(e, dataframe_row, currency, checkbox) ==
    IF e.type \in {"PUSH", "POPULATE"} THEN
        LET sql_column_name == GetSql(e, e.name \o "_sql")
            v == RowGet(dataframe_row, sql_column_name)
        IN  IF InSeq(e.name, currency) THEN
                Cell(0, IF IsErr(v) THEN v ELSE CurrencyText(v), "False", CurrencyFormat)
            ELSE IF InSeq(e.name, checkbox) THEN
                Cell(0, IF IsErr(v) THEN v ELSE PyStr(PyStrOf(v)), "False", Absent)
            ELSE
                Cell(0, IF IsErr(v) THEN v ELSE PyStr(PyStrOf(v)), "True", Absent)
    ELSE IF e.type = "PRIMARY KEY" THEN
        LET v == RowGet(dataframe_row, e.name)
        IN  Cell(0, IF IsErr(v) THEN v ELSE PyStr(PyStrOf(v)), Absent, Absent)
    ELSE Cell(0, PyNone, "skip", Absent)

RECURSIVE NewCells(_, _, _, _, _, _)
\* The loop of build_smartsheet_row_new over the remaining policy entries,
\* from the cells appended so far: the row's cells, or the first exception.
NewCells(config, dataframe_row, currency, checkbox, columns, cells) ==
    IF config = << >> THEN [error |-> "none", cells |-> cells]
    ELSE LET d == NewCellDraft(Head(config), dataframe_row, currency, checkbox)
             id == get_column_id(columns, Head(config).name)
         IN  IF d.strict = "skip"
             THEN NewCells(Tail(config), dataframe_row, currency, checkbox, columns, cells)
             ELSE IF IsErr(d.value) THEN [error |-> d.value.s[1], cells |-> << >>]
             ELSE IF IsErr(id) THEN [error |-> "KeyError", cells |-> << >>]
             ELSE NewCells(Tail(config), dataframe_row, currency, checkbox, columns,
                           Append(cells, [d EXCEPT !.column_id = id.n]))

build_smartsheet_row_new(config, dataframe_row, currency, checkbox, columns) ==
    LET r == NewCells(config, dataframe_row, currency, checkbox, columns, << >>)
    IN  [error |-> r.error, row |-> [to_bottom |-> TRUE, cells |-> r.cells]]


(***************************************************************************)
(* merge_smartsheet_inserts                                                *)
(***************************************************************************)
\* pd.merge raises KeyError when a key column is missing from its frame;
\* reading an unset primary-key attribute raises AttributeError.
MergeError(pk_sql, pk_ss, dsql, dss) ==
    IF pk_sql = Absent \/ pk_ss = Absent THEN "AttributeError"
    ELSE IF pk_sql \notin ColSet(dsql) \/ pk_ss \notin ColSet(dss) THEN "KeyError"
    ELSE "none"

\* df_new: the left join of the two snapshots.  The filter that keeps only
\* the rows without a sheet match is commented out in the source (line 206).
\* A variant of InsertCandidates that joins the snapshots "inner"; the
\* insert-coverage property must reject it.
InsertCandidatesInner(dsql, dss, pk_sql, pk_ss) ==
    InferObjects(Frame(<< >>, PdMerge(dsql, dss, "inner", pk_sql, pk_ss))).rows

InsertCandidates(dsql, dss, pk_sql, pk_ss) ==
    InferObjects(Frame(<< >>, PdMerge(dsql, dss, "left", pk_sql, pk_ss))).rows

RECURSIVE BuildAll(_, _, _, _, _, _)
\* The loop over df_new.iterrows(), from the rows built so far: new_rows_ss,
\* or the first exception.
BuildAll(rows, config, currency, checkbox, columns, built) ==
    IF rows = << >> THEN [error |-> "none", rows |-> built]
    ELSE LET b == build_smartsheet_row_new(config, Head(rows), currency, checkbox, columns)
         IN  IF b.error # "none" THEN [error |-> b.error, rows |-> << >>]
             ELSE BuildAll(Tail(rows), config, currency, checkbox, columns,
                           Append(built, b.row))

\* new_rows_ss of merge_smartsheet_inserts, or the exception raised on the
\* way; sources names, for each new row, the relational key of the df_new
\* row it was built from.
NewRowsSs(config, dsql, dss, pk_sql, pk_ss, currency, checkbox, columns) ==
    IF MergeError(pk_sql, pk_ss, dsql, dss) # "none"
    THEN [error |-> MergeError(pk_sql, pk_ss, dsql, dss), rows |-> << >>,
          sources |-> << >>]
    ELSE LET df_new == InsertCandidates(dsql, dss, pk_sql, pk_ss)
             b == BuildAll(df_new, config, currency, checkbox, columns, << >>)
         IN  [error |-> b.error, rows |-> b.rows,
              sources |-> [i \in 1..Len(df_new) |-> RowGet(df_new[i], pk_sql)]]

\* The sheet after the store has added the rows of one create-call: each
\* new row gets a fresh id and holds the given cell values, None elsewhere.
MaxRowId(sh) ==
    IF sh.rows = << >> THEN 100
    ELSE CHOOSE m \in {sh.rows[i].id : i \in 1..Len(sh.rows)} :
             \A i \in 1..Len(sh.rows) : sh.rows[i].id <= m

CellValueFor(cells, cid) ==
    IF \E k \in 1..Len(cells) : cells[k].column_id = cid
    THEN cells[CHOOSE k \in 1..Len(cells) : cells[k].column_id = cid].value
    ELSE PyNone

SheetAddRows(sh, new_rows) ==
    LET ids == {sh.columns[i].id : i \in 1..Len(sh.columns)}
    IN  [sh EXCEPT !.rows = sh.rows \o
            [k \in 1..Len(new_rows) |->
                [id |-> MaxRowId(sh) + k,
                 cells |-> [cid \in ids |-> CellValueFor(new_rows[k].cells, cid)]]]]

\* A variant that sends the queue one row per call; the one-call-per-pass
\* property must reject it.
AddRowsCallsPerRow(new_rows) == [k \in 1..Len(new_rows) |-> <<new_rows[k]>>]

\* A variant that sends the queue a second time; the no-retry property
\* must reject it.
AddRowsCallsAgain(new_rows) ==
    IF Len(new_rows) > 0 THEN <<new_rows, new_rows>> ELSE << >>

\* Lines 214-217: the create-calls the operation makes for its queue, one
\* with the whole queue and none for an empty queue.
AddRowsCalls(new_rows) == IF Len(new_rows) > 0 THEN <<new_rows>> ELSE << >>

\* self.sheet.add_rows of line 217 under lines 214-219: the sheet afterwards
\* and the exception, which the except clause raises again as it is.
add_rows(sh, new_rows, fails) ==
    IF Len(new_rows) = 0 THEN [error |-> "none", sheet |-> sh]
    ELSE IF fails THEN [error |-> "ApiError", sheet |-> sh]
    ELSE [error |-> "none", sheet |-> SheetAddRows(sh, new_rows)]

\* merge_smartsheet_inserts followed by a fresh read of the sheet into df_ss.
merge_smartsheet_inserts_reloading ==
    /\ phase = "ready"
    /\ "merge_smartsheet_inserts" \notin done
    /\ done' = done \cup {"merge_smartsheet_inserts"}
    /\ \E r \in {NewRowsSs(columns_config, df_sql, df_ss, primary_key_sql,
                           primary_key_ss, currency_columns, checkbox_columns,
                           sheet_columns)} :
           IF r.error # "none"
           THEN /\ raised' = [raised EXCEPT !["merge_smartsheet_inserts"] = r.error]
                /\ UNCHANGED <<add_rows_calls, insert_sources, sheet, df_ss>>
           ELSE \E w \in {add_rows(sheet, r.rows, faults.add_rows)} :
                   /\ raised' = [raised EXCEPT !["merge_smartsheet_inserts"] = w.error]
                   /\ add_rows_calls' = add_rows_calls \o AddRowsCalls(r.rows)
                   /\ insert_sources' =
                          insert_sources \o [c \in 1..Len(AddRowsCalls(r.rows)) |-> r.sources]
                   /\ sheet' = w.sheet
                   /\ df_ss' = get_sheet_dataframe(w.sheet)
    /\ UNCHANGED <<columns_config, sql_table, phase, passes_left, primary_key_ss,
                   primary_key_sql, currency_columns, checkbox_columns,
                   sheet_columns, df_sql, update_rows_calls, sql_calls,
                   pass_log, faults, init_raised, loader>>

merge_smartsheet_inserts ==
    /\ phase = "ready"
    /\ "merge_smartsheet_inserts" \notin done
    /\ done' = done \cup {"merge_smartsheet_inserts"}
    /\ \E r \in {NewRowsSs(columns_config, df_sql, df_ss, primary_key_sql,
                           primary_key_ss, currency_columns, checkbox_columns,
                           sheet_columns)} :
           IF r.error # "none"
           THEN /\ raised' = [raised EXCEPT !["merge_smartsheet_inserts"] = r.error]
                /\ UNCHANGED <<add_rows_calls, insert_sources, sheet>>
           ELSE \E w \in {add_rows(sheet, r.rows, faults.add_rows)} :
                   /\ raised' = [raised EXCEPT !["merge_smartsheet_inserts"] = w.error]
                   /\ add_rows_calls' = add_rows_calls \o AddRowsCalls(r.rows)
                   /\ insert_sources' =
                          insert_sources \o [c \in 1..Len(AddRowsCalls(r.rows)) |-> r.sources]
                   /\ sheet' = w.sheet
    /\ UNCHANGED <<columns_config, sql_table, phase, passes_left, primary_key_ss,
                   primary_key_sql, currency_columns, checkbox_columns,
                   sheet_columns, df_ss, df_sql, update_rows_calls, sql_calls,
                   pass_log, faults, init_raised, loader>>


(***************************************************************************)
(* merge_smartsheet_updates                                                *)
(***************************************************************************)
\* A variant that takes the POPULATE entries along with those asked for;
\* the column-action property must reject it.
EntriesOfTypeOrPopulate(config, type) ==
    SelectSeq(config, LAMBDA e : e.type \in {type, "POPULATE"})

\* columns_pushed / columns_pulled: the policy entries of one action, in
\* policy order.
EntriesOfType(config, type) == SelectSeq(config, LAMBDA e : e.type = type)

\* The pair (ss_value, sql_value) the update loops read from a matched row
\* for one policy entry: suffixed labels when the column has the same name
\* on both sides, plain labels otherwise.
SsValue(e, row) ==
    IF e.name = GetSql(e, e.name) THEN RowGet(row, e.name \o "_ss")
    ELSE RowGet(row, e.name)

\* A variant of SqlValue that reads the sheet's side of the matched row; the
\* direction-of-authority property must reject it.
SqlValueFromSheet(e, row) == SsValue(e, row)

SqlValue(e, row) ==
    IF e.name = GetSql(e, e.name) THEN RowGet(row, GetSql(e, e.name) \o "_sql")
    ELSE RowGet(row, GetSql(e, e.name))

\* The comparison of line 245 / 312: the two raw values with Python's ==.
ValuesEqual(ss_value, sql_value) == PyEq(ss_value, sql_value)

\* The value written to an updated cell (lines 251-258).
UpdateCellValue(e, sql_value, currency) ==
    IF InSeq(e.name, currency) THEN CurrencyText(sql_value) ELSE sql_value

UpdateCellStrict(e, currency) == IF InSeq(e.name, currency) THEN "False" ELSE "True"

\* A variant that sends every PUSH cell of a row with a changed one; the
\* changed-cells property must reject it.
UpdateCellsFullRow(pushed, row, currency, columns, ss_cells) ==
    [error |-> "none",
     cells |-> IF \A k \in 1..Len(pushed) :
                      ValuesEqual(SsValue(pushed[k], row), SqlValue(pushed[k], row))
               THEN << >>
               ELSE [k \in 1..Len(pushed) |->
                        Cell(get_column_id(columns, pushed[k].name).n,
                             SqlValue(pushed[k], row), "True", Absent)]]

RECURSIVE UpdateCells(_, _, _, _, _)
\* The inner loop over columns_pushed for one matched row, from the cells
\* collected so far: ss_cells, or the first exception.
UpdateCells(pushed, row, currency, columns, ss_cells) ==
    IF pushed = << >> THEN [error |-> "none", cells |-> ss_cells]
    ELSE LET e == Head(pushed)
             ss_value == SsValue(e, row)
             sql_value == SqlValue(e, row)
             id == get_column_id(columns, e.name)
             cv == UpdateCellValue(e, sql_value, currency)
         IN  IF IsErr(ss_value) \/ IsErr(sql_value)
             THEN [error |-> "KeyError", cells |-> << >>]
             ELSE IF ValuesEqual(ss_value, sql_value)
             THEN UpdateCells(Tail(pushed), row, currency, columns, ss_cells)
             ELSE IF IsErr(id) THEN [error |-> "KeyError", cells |-> << >>]
             ELSE IF IsErr(cv) THEN [error |-> cv.s[1], cells |-> << >>]
             ELSE UpdateCells(Tail(pushed), row, currency, columns,
                              Append(ss_cells,
                                     Cell(id.n, cv, UpdateCellStrict(e, currency),
                                          IF InSeq(e.name, currency)
                                          THEN CurrencyFormat ELSE Absent)))

RECURSIVE UpdateRows(_, _, _, _, _)
\* The loop over df_match.iterrows(), from the rows collected so far:
\* update_rows, or the first exception.
UpdateRows(rows, pushed, currency, columns, update_rows) ==
    IF rows = << >> THEN [error |-> "none", rows |-> update_rows]
    ELSE LET c == UpdateCells(pushed, Head(rows), currency, columns, << >>)
             rid == RowGet(Head(rows), "RowID")
         IN  IF c.error # "none" THEN [error |-> c.error, rows |-> << >>]
             ELSE IF Len(c.cells) = 0
             THEN UpdateRows(Tail(rows), pushed, currency, columns, update_rows)
             ELSE IF IsErr(rid) THEN [error |-> "KeyError", rows |-> << >>]
             ELSE UpdateRows(Tail(rows), pushed, currency, columns,
                             Append(update_rows,
                                    [id |-> Mils(rid) \div 1000, cells |-> c.cells]))

\* df_match of the two update operations: the inner join of the snapshots.
Matched(dsql, dss, pk_sql, pk_ss) == PdMerge(dsql, dss, "inner", pk_sql, pk_ss)

UpdateRowsSs(config, dsql, dss, pk_sql, pk_ss, currency, columns) ==
    IF MergeError(pk_sql, pk_ss, dsql, dss) # "none"
    THEN [error |-> MergeError(pk_sql, pk_ss, dsql, dss), rows |-> << >>]
    ELSE UpdateRows(Matched(dsql, dss, pk_sql, pk_ss),
                    EntriesOfType(config, "PUSH"), currency, columns, << >>)

\* The sheet after the store has applied one update-call: every cell given
\* replaces the value of that column in the row with the given id.
SheetUpdateRows(sh, upd) ==
    LET Given(row_id, cid) ==
            {k \in 1..Len(upd) :
                /\ upd[k].id = row_id
                /\ \E c \in 1..Len(upd[k].cells) : upd[k].cells[c].column_id = cid}
        Last(S) == CHOOSE k \in S : \A j \in S : j <= k
    IN  [sh EXCEPT !.rows =
            [i \in 1..Len(sh.rows) |->
                [sh.rows[i] EXCEPT !.cells =
                    [cid \in DOMAIN sh.rows[i].cells |->
                        IF Given(sh.rows[i].id, cid) = {} THEN sh.rows[i].cells[cid]
                        ELSE CellValueFor(upd[Last(Given(sh.rows[i].id, cid))].cells,
                                          cid)]]]]

\* Lines 274-276: the update-calls the operation makes for its queue, one
\* with the whole queue and none for an empty queue.
UpdateRowsCalls(upd) == IF Len(upd) > 0 THEN <<upd>> ELSE << >>

\* self.client.Sheets.update_rows of line 276 under lines 274-279: the
\* sheet afterwards and the exception, raised again as it is.
update_rows(sh, upd, fails) ==
    IF Len(upd) = 0 THEN [error |-> "none", sheet |-> sh]
    ELSE IF fails THEN [error |-> "ApiError", sheet |-> sh]
    ELSE [error |-> "none", sheet |-> SheetUpdateRows(sh, upd)]

merge_smartsheet_updates ==
    /\ phase = "ready"
    /\ "merge_smartsheet_updates" \notin done
    /\ done' = done \cup {"merge_smartsheet_updates"}
    /\ \E r \in {UpdateRowsSs(columns_config, df_sql, df_ss, primary_key_sql,
                              primary_key_ss, currency_columns, sheet_columns)} :
           IF r.error # "none"
           THEN /\ raised' = [raised EXCEPT !["merge_smartsheet_updates"] = r.error]
                /\ UNCHANGED <<update_rows_calls, sheet>>
           ELSE \E w \in {update_rows(sheet, r.rows, faults.update_rows)} :
                   /\ raised' = [raised EXCEPT !["merge_smartsheet_updates"] = w.error]
                   /\ update_rows_calls' = update_rows_calls \o UpdateRowsCalls(r.rows)
                   /\ sheet' = w.sheet
    /\ UNCHANGED <<columns_config, sql_table, phase, passes_left, primary_key_ss,
                   primary_key_sql, currency_columns, checkbox_columns,
                   sheet_columns, df_ss, df_sql, add_rows_calls, sql_calls,
                   insert_sources, pass_log, faults, init_raised, loader>>


(***************************************************************************)
(* merge_sql_updates                                                       *)
(***************************************************************************)
RECURSIVE ReplaceQuote(_)
\* ss_value.replace("'", "''") on the characters of a string.
ReplaceQuote(cs) ==
    IF cs = << >> THEN << >>
    ELSE (IF Head(cs) = "'" THEN <<"'", "'">> ELSE <<Head(cs)>>) \o ReplaceQuote(Tail(cs))

\* Lines 318-321: None stays None, a string gets its quotes doubled, any
\* other value has no replace method.
EscapedSsValue(ss_value) ==
    CASE ss_value.t = "None" -> PyNone
      [] ss_value.t = "str"  -> PyStr(ReplaceQuote(ss_value.s))
      [] OTHER               -> PyErr("AttributeError")

RECURSIVE UpdateColumnsSql(_, _, _)
\* The inner loop over columns_pulled for one matched row: the dict
\* update_columns_sql as a sequence of [column, value] in insertion order
\* (from the items set so far), or the first exception.
UpdateColumnsSql(pulled, row, update_columns_sql) ==
    IF pulled = << >> THEN [error |-> "none", columns |-> update_columns_sql]
    ELSE LET e == Head(pulled)
             ss_value == SsValue(e, row)
             sql_value == SqlValue(e, row)
             v == EscapedSsValue(ss_value)
         IN  IF IsErr(ss_value) \/ IsErr(sql_value)
             THEN [error |-> "KeyError", columns |-> << >>]
             ELSE IF ValuesEqual(ss_value, sql_value)
             THEN UpdateColumnsSql(Tail(pulled), row, update_columns_sql)
             ELSE IF IsErr(v) THEN [error |-> v.s[1], columns |-> << >>]
             ELSE UpdateColumnsSql(Tail(pulled), row,
                                   Append(update_columns_sql,
                                          [column |-> e.name, value |-> v]))

\* A variant of DictPut that adds an entry whether or not the key is
\* there; the one-statement-per-key property must reject it.
DictPutAppend(d, key, columns) == Append(d, [key |-> key, columns |-> columns])

\* update_rows_sql[key] = columns on an insertion-ordered dict held as a
\* sequence of [key, columns]: an existing key keeps its place.
DictPut(d, key, columns) ==
    IF \E i \in 1..Len(d) : PyEq(d[i].key, key)
    THEN [i \in 1..Len(d) |->
             IF PyEq(d[i].key, key) THEN [key |-> d[i].key, columns |-> columns]
             ELSE d[i]]
    ELSE Append(d, [key |-> key, columns |-> columns])

\* One turn of the loop over df_match.iterrows() of merge_sql_updates
\* (lines 300-326) on the loop state st = [error, dict]; an exception ends
\* the loop, so the turns after it leave the state alone.
UpdateRowsSqlStep(st, row, pulled, pk_sql) ==
    IF st.error # "none" THEN st
    ELSE LET c == UpdateColumnsSql(pulled, row, << >>)
             key == RowGet(row, pk_sql)
         IN  IF c.error # "none" THEN [error |-> c.error, dict |-> << >>]
             ELSE IF c.columns = << >> THEN st
             ELSE IF IsErr(key) THEN [error |-> "KeyError", dict |-> << >>]
             ELSE [error |-> "none", dict |-> DictPut(st.dict, key, c.columns)]

RECURSIVE UpdateRowsSql(_, _, _, _)
\* The loop over df_match.iterrows(): the turns applied to the rows in
\* order, the state after the first half of the rows (a value, s1) handed
\* to the second half.
UpdateRowsSql(rows, pulled, pk_sql, st) ==
    IF rows = << >> THEN st
    ELSE IF Len(rows) = 1 THEN UpdateRowsSqlStep(st, rows[1], pulled, pk_sql)
    ELSE LET h == Len(rows) \div 2
         IN  CHOOSE s2 \in {UpdateRowsSql(SubSeq(rows, h + 1, Len(rows)),
                                          pulled, pk_sql, s1) :
                                s1 \in {UpdateRowsSql(SubSeq(rows, 1, h),
                                                      pulled, pk_sql, st)}} : TRUE

\* A variant that writes every value as a quoted literal, a missing one as
\* the text of None; the statement property must reject it.
SetItemQuoted(column_name, column_value) ==
    [column |-> column_name, null |-> FALSE, literal |-> PyStrOf(column_value)]

\* A variant that writes NULL for None only and the empty text as a quoted
\* empty literal; the empty-text property must reject it.
SetItemNoneOnly(column_name, column_value) ==
    IF column_value = PyNone
    THEN [column |-> column_name, null |-> TRUE, literal |-> << >>]
    ELSE [column |-> column_name, null |-> FALSE, literal |-> column_value.s]

\* One "[column] = ..." item of the SET clause (lines 336-340): NULL for
\* '' and None, the quoted value otherwise.
SetItem(column_name, column_value) ==
    IF column_value.t = "None" \/ (column_value.t = "str" /\ column_value.s = << >>)
    THEN [column |-> column_name, null |-> TRUE, literal |-> << >>]
    ELSE [column |-> column_name, null |-> FALSE, literal |-> column_value.s]

\* The UPDATE statement built for one entry of update_rows_sql (lines 333-344).
SqlCmd(entry, pk_sql) ==
    [set |-> [i \in 1..Len(entry.columns) |->
                 SetItem(entry.columns[i].column, entry.columns[i].value)],
     where_column |-> pk_sql,
     where_value |-> PyStrOf(entry.key)]


\* sql_update_max_count
sql_update_max_count == 100

RECURSIVE UnescapeQuote(_)
\* The string a SQL literal denotes: each doubled quote is one quote.
UnescapeQuote(cs) ==
    IF cs = << >> THEN << >>
    ELSE IF Len(cs) >= 2 /\ cs[1] = "'" /\ cs[2] = "'"
    THEN <<"'">> \o UnescapeQuote(SubSeq(cs, 3, Len(cs)))
    ELSE <<Head(cs)>> \o UnescapeQuote(Tail(cs))

\* A batch the server rejects: a statement names a column the table lacks.
SqlBatchFails(table, batch) ==
    \E k \in 1..Len(batch) :
        \/ batch[k].where_column \notin ColSet(table)
        \/ \E i \in 1..Len(batch[k].set) : batch[k].set[i].column \notin ColSet(table)

\* The table after one UPDATE statement: the rows whose key reads as the
\* WHERE value get the SET values (text columns).
SqlApply(table, cmd) ==
    LET Sets(c) == {i \in 1..Len(cmd.set) : cmd.set[i].column = c}
        Last(S) == CHOOSE k \in S : \A j \in S : j <= k
        NewValue(item) == IF item.null THEN PyNone ELSE PyStr(UnescapeQuote(item.literal))
    IN  Frame(table.cols,
              [r \in 1..Len(table.rows) |->
                  IF PyStrOf(table.rows[r][cmd.where_column]) = cmd.where_value
                  THEN [c \in DOMAIN table.rows[r] |->
                           IF Sets(c) = {} THEN table.rows[r][c]
                           ELSE NewValue(cmd.set[Last(Sets(c))])]
                  ELSE table.rows[r]])

RECURSIVE SqlApplyAll(_, _)
\* The statements of a batch applied in order.
SqlApplyAll(table, batch) ==
    IF batch = << >> THEN table
    ELSE IF Len(batch) = 1 THEN SqlApply(table, batch[1])
    ELSE LET h == Len(batch) \div 2
         IN  CHOOSE t2 \in {SqlApplyAll(t1, SubSeq(batch, h + 1, Len(batch))) :
                                t1 \in {SqlApplyAll(table, SubSeq(batch, 1, h))}} : TRUE

\* SqlServerClient.execute_sql_query on one batch, inside one transaction
\* (engine.begin()): the table afterwards and whether the call raised.  It
\* raises when the server is out of reach (fails) or rejects the batch, and
\* the transaction then leaves the table as it was.
execute_sql_query(table, batch, fails) ==
    IF fails THEN [error |-> "OperationalError", table |-> table]
    ELSE IF SqlBatchFails(table, batch)
    THEN [error |-> "ProgrammingError", table |-> table]
    ELSE [error |-> "none", table |-> SqlApplyAll(table, batch)]

\* A variant of Flushed that swallows the exception of a flush and goes on
\* with the next batch; the failed-flush property must reject it.
FlushedQuiet(st, cmds, x) ==
    [st EXCEPT !.sql_cmds = << >>, !.sql_update_count = 0,
               !.calls = Append(st.calls, cmds), !.table = x.table]

\* A variant of Flushed that restarts the counter and keeps the buffer; the
\* sent-exactly-once property must reject it.
FlushedKeeping(st, cmds, x) ==
    IF x.error # "none"
    THEN [st EXCEPT !.calls = Append(st.calls, cmds), !.table = x.table,
                    !.error = x.error]
    ELSE [st EXCEPT !.sql_update_count = 0, !.sql_cmds = cmds,
                    !.calls = Append(st.calls, cmds), !.table = x.table]

\* The flush of line 356 or 362 on the loop state: the batch is handed to
\* execute_sql_query, and on success the buffer and the counter restart.
Flushed(st, cmds, x) ==
    IF x.error # "none"
    THEN [st EXCEPT !.calls = Append(st.calls, cmds), !.table = x.table,
                    !.error = x.error]
    ELSE [st EXCEPT !.sql_cmds = << >>, !.sql_update_count = 0,
                    !.calls = Append(st.calls, cmds), !.table = x.table]

\* A variant of FlushStep that flushes once the counter has passed the
\* maximum; the batching property must reject it.
FlushStepLate(st, entry, pk_sql) ==
    IF st.error # "none" THEN st
    ELSE IF st.sql_update_count + 1 > sql_update_max_count
    THEN Flushed(st, Append(st.sql_cmds, SqlCmd(entry, pk_sql)),
                 execute_sql_query(st.table, Append(st.sql_cmds, SqlCmd(entry, pk_sql)),
                                   Len(st.calls) + 1 = st.fail_at))
    ELSE [st EXCEPT !.sql_cmds = Append(st.sql_cmds, SqlCmd(entry, pk_sql)),
                    !.sql_update_count = st.sql_update_count + 1]

\* One turn of the loop over update_rows_sql.items() (lines 332-358) on the
\* loop state st = [sql_cmds, sql_update_count, calls, table, error,
\* fail_at], where fail_at is the call of execute_sql_query the server fails
\* on (0: none); an exception ends the loop.
FlushStep(st, entry, pk_sql) ==
    IF st.error # "none" THEN st
    ELSE IF st.sql_update_count + 1 >= sql_update_max_count
    THEN Flushed(st, Append(st.sql_cmds, SqlCmd(entry, pk_sql)),
                 execute_sql_query(st.table, Append(st.sql_cmds, SqlCmd(entry, pk_sql)),
                                   Len(st.calls) + 1 = st.fail_at))
    ELSE [st EXCEPT !.sql_cmds = Append(st.sql_cmds, SqlCmd(entry, pk_sql)),
                    !.sql_update_count = st.sql_update_count + 1]

RECURSIVE FlushItems(_, _, _)
\* The loop over update_rows_sql.items(): the turns applied to the entries
\* in order, the state after the first half of the entries (a value, s1)
\* handed to the second half.
FlushItems(st, entries, pk_sql) ==
    IF entries = << >> THEN st
    ELSE IF Len(entries) = 1 THEN FlushStep(st, entries[1], pk_sql)
    ELSE LET h == Len(entries) \div 2
         IN  CHOOSE s2 \in {FlushItems(s1, SubSeq(entries, h + 1, Len(entries)),
                                       pk_sql) :
                                s1 \in {FlushItems(st, SubSeq(entries, 1, h),
                                                   pk_sql)}} : TRUE

\* A variant of FlushRest that hands the buffer over whether or not it
\* holds a statement; the flush-loop invariant must reject it.
FlushRestAlways(st) ==
    IF st.error = "none"
    THEN Flushed(st, st.sql_cmds,
                 execute_sql_query(st.table, st.sql_cmds, Len(st.calls) + 1 = st.fail_at))
    ELSE st

\* The flush of the remainder after the loop (lines 360-362).
FlushRest(st) ==
    IF st.error = "none" /\ Len(st.sql_cmds) > 0
    THEN Flushed(st, st.sql_cmds,
                 execute_sql_query(st.table, st.sql_cmds, Len(st.calls) + 1 = st.fail_at))
    ELSE st

\* Lines 330-362: the batches handed to execute_sql_query (a failing one
\* included), the table afterwards and the exception that ended the loop.
FlushLoop(entries, pk_sql, table, fail_at) ==
    FlushRest(FlushItems([sql_cmds |-> << >>, sql_update_count |-> 0,
                          calls |-> << >>, table |-> table, error |-> "none",
                          fail_at |-> fail_at],
                         entries, pk_sql))

\* update_rows_sql of merge_sql_updates, or the exception raised on the way.
PendingSqlUpdates(config, dsql, dss, pk_sql, pk_ss) ==
    IF MergeError(pk_sql, pk_ss, dsql, dss) # "none"
    THEN [error |-> MergeError(pk_sql, pk_ss, dsql, dss), dict |-> << >>]
    ELSE UpdateRowsSql(Matched(dsql, dss, pk_sql, pk_ss),
                       EntriesOfType(config, "PULL"), pk_sql,
                       [error |-> "none", dict |-> << >>])

merge_sql_updates ==
    /\ phase = "ready"
    /\ "merge_sql_updates" \notin done
    /\ done' = done \cup {"merge_sql_updates"}
    /\ \E p \in {PendingSqlUpdates(columns_config, df_sql, df_ss, primary_key_sql,
                                   primary_key_ss)} :
          IF p.error # "none"
          THEN /\ raised' = [raised EXCEPT !["merge_sql_updates"] = p.error]
               /\ UNCHANGED <<sql_calls, sql_table>>
          ELSE \E f \in {FlushLoop(p.dict, primary_key_sql, sql_table,
                                    faults.sql_at)} :
                  /\ raised' = [raised EXCEPT !["merge_sql_updates"] = f.error]
                  /\ sql_calls' = sql_calls \o f.calls
                  /\ sql_table' = f.table
    /\ UNCHANGED <<columns_config, sheet, phase, passes_left, primary_key_ss,
                   primary_key_sql, currency_columns, checkbox_columns,
                   sheet_columns, df_ss, df_sql, add_rows_calls,
                   update_rows_calls, insert_sources, pass_log, faults,
                   init_raised, loader>>


(***************************************************************************)
(* SqlServerClient.dataframe_to_table and get_table_dataframe (_core.py).  *)
(* The database holds the one table [dbo].[test], or not yet; a table is   *)
(* a Frame and keeps the values it is given (column types are not          *)
(* modelled).                                                              *)
(***************************************************************************)
\* The table does not exist.
NoTable == [missing |-> TRUE]

RECURSIVE Split(_, _, _)
\* str.split(sep) from the part read so far: the parts between separators.
Split(cs, sep, part) ==
    IF cs = << >> THEN <<part>>
    ELSE IF Head(cs) = sep THEN <<part>> \o Split(Tail(cs), sep, << >>)
    ELSE Split(Tail(cs), sep, Append(part, Head(cs)))

\* _parse_sql_name: the schema and the table a name stands for.
parse_sql_name(table_name, schema_name) ==
    LET table_name_parts ==
            Split(SelectSeq(table_name, LAMBDA c : c \notin {"[", "]"}), ".", << >>)
    IN  IF Len(table_name_parts) > 2
        THEN [error |-> "SqlServerClientError", schema |-> schema_name,
              table |-> table_name]
        ELSE IF Len(table_name_parts) = 2
        THEN [error |-> "none", schema |-> table_name_parts[1],
              table |-> table_name_parts[2]]
        ELSE [error |-> "none", schema |-> schema_name, table |-> table_name_parts[1]]

\* The value a table stores for a dataframe value: a null is stored as NULL.
Stored(v) == IF IsNull(v) THEN PyNone ELSE v

\* df.to_sql(..., if_exists=update_type, index=False): 'replace' drops the
\* table and a missing table is created, with the frame's columns; 'append'
\* inserts the rows, NULL in the columns the frame lacks, and the server
\* rejects a column the table lacks.
to_sql(table, df, if_exists) ==
    IF table = NoTable \/ if_exists = "replace"
    THEN [error |-> "none",
          table |-> Frame(df.cols,
                          [i \in 1..Len(df.rows) |->
                              [c \in ColSet(df) |-> Stored(df.rows[i][c])]])]
    ELSE IF ~(ColSet(df) \subseteq ColSet(table))
    THEN [error |-> "ProgrammingError", table |-> table]
    ELSE [error |-> "none",
          table |-> Frame(table.cols,
                          table.rows \o
                          [i \in 1..Len(df.rows) |->
                              [c \in ColSet(table) |->
                                  IF c \in ColSet(df) THEN Stored(df.rows[i][c])
                                  ELSE PyNone]])]

\* truncate_table: TRUNCATE TABLE in a transaction of its own.
truncate_table(table) ==
    IF table = NoTable THEN [error |-> "ProgrammingError", table |-> table]
    ELSE [error |-> "none", table |-> Frame(table.cols, << >>)]

\* A variant in which 'reload' appends without truncating first; the load
\* property must reject it.
dataframe_to_table_kept(table, df, method) == to_sql(table, df, "append")

\* dataframe_to_table after the name is parsed (lines 85-93): the table
\* afterwards and the exception raised.  A method other than the three
\* leaves update_type unbound.
dataframe_to_table(table, df, method) ==
    IF method = "reload"
    THEN IF truncate_table(table).error # "none" THEN truncate_table(table)
         ELSE to_sql(truncate_table(table).table, df, "append")
    ELSE IF method = "create" THEN to_sql(table, df, "replace")
    ELSE IF method = "append" THEN to_sql(table, df, "append")
    ELSE [error |-> "UnboundLocalError", table |-> table]

\* get_table_dataframe of _core.py (lines 103-111): SELECT * read into a
\* frame, nan replaced by None; the server rejects a missing table.
read_table_dataframe(table) ==
    IF table = NoTable THEN [error |-> "ProgrammingError"]
    ELSE ReplaceNaN(InferObjects(table))

\* No call of the loader yet, and nothing read back.
Unread == [unread |-> TRUE]
NoLoad == [last |-> [method |-> "none"], read |-> Unread]

\* The names the callers use for the table (test_core.py lines 14 and 16)
\* and one with three parts.
Dbo == <<"d", "b", "o">>
Test == <<"t", "e", "s", "t">>
TableNames ==
    {Test,
     Dbo \o <<".">> \o Test,
     <<"[">> \o Dbo \o <<"]", ".", "[">> \o Test \o <<"]">>,
     <<"x", ".">> \o Dbo \o <<".">> \o Test}

\* One call of dataframe_to_table(df, table_name, method=method) by a
\* client that has loaded nothing yet.
DataframeToTable(df, table_name, method) ==
    /\ loader.last.method = "none"
    /\ \E n \in {parse_sql_name(table_name, Dbo)} :
          /\ n.error = "none" => (n.schema = Dbo /\ n.table = Test)
          /\ \E r \in {IF n.error # "none"
                        THEN [error |-> n.error, table |-> sql_table]
                        ELSE dataframe_to_table(sql_table, df, method)} :
                /\ sql_table' = r.table
                /\ loader' = [last |-> [method |-> method, df |-> df,
                                        before |-> sql_table, error |-> r.error],
                              read |-> Unread]
    /\ UNCHANGED <<columns_config, sheet, phase, passes_left, primary_key_ss,
                   primary_key_sql, currency_columns, checkbox_columns,
                   sheet_columns, df_ss, df_sql, done, raised, add_rows_calls,
                   update_rows_calls, sql_calls, insert_sources, pass_log,
                   faults, init_raised>>

\* One call of get_table_dataframe after the load.
GetTableDataframe ==
    /\ loader.last.method # "none"
    /\ loader.read = Unread
    /\ loader' = [loader EXCEPT !.read = read_table_dataframe(sql_table)]
    /\ UNCHANGED <<columns_config, sheet, sql_table, phase, passes_left,
                   primary_key_ss, primary_key_sql, currency_columns,
                   checkbox_columns, sheet_columns, df_ss, df_sql, done, raised,
                   add_rows_calls, update_rows_calls, sql_calls, insert_sources,
                   pass_log, faults, init_raised>>

(***************************************************************************)
(* Policies and store contents the runs start from.                        *)
(***************************************************************************)
\* The number of distinct primary-key values "1" .. in the stores.
NKeys == 2

KeyOf(k) == PyStr(NatToChars(k))

\* {id: PRIMARY KEY, name: PUSH, status: PULL}: every column has the same
\* name on both sides.
PolicyTicket ==
    <<Entry("id", "PRIMARY KEY", Absent, Absent),
      Entry("name", "PUSH", Absent, Absent),
      Entry("status", "PULL", Absent, Absent)>>

\* A policy in the style of the module's own configuration: the key and
\* the data columns are named differently on the two sides, one column is a
\* currency, one is populated on insert only, one is ignored.
PolicyLedger ==
    <<Entry("Amount", "PUSH", "amount", "CURRENCY"),
      Entry("Asset Id", "PRIMARY KEY", "Asset_Id", Absent),
      Entry("Memo", "POPULATE", "memo", Absent),
      Entry("Note", "PULL", "note", Absent),
      Entry("Skip", "IGNORE", "skip", Absent)>>

\* Every action at once, each column with the same name on both sides:
\* two pushed columns, one pulled, one populated on insert, one ignored.
PolicyDesk ==
    <<Entry("id", "PRIMARY KEY", Absent, Absent),
      Entry("name", "PUSH", Absent, Absent),
      Entry("owner", "PUSH", Absent, Absent),
      Entry("status", "PULL", Absent, Absent),
      Entry("memo", "POPULATE", Absent, Absent),
      Entry("skip", "IGNORE", Absent, Absent)>>

\* One pushed column per type constraint: a checkbox, a currency and a
\* column without constraint.
PolicyFlags ==
    <<Entry("id", "PRIMARY KEY", Absent, Absent),
      Entry("done", "PUSH", Absent, "CHECKBOX"),
      Entry("cost", "PUSH", Absent, "CURRENCY"),
      Entry("name", "PUSH", Absent, Absent)>>

\* A pulled column named differently on the two sides.
PolicyRemarks ==
    <<Entry("id", "PRIMARY KEY", Absent, Absent),
      Entry("Comment", "PULL", "remark", Absent)>>

\* A pushed column of numbers next to a pulled column of text.
PolicyStock ==
    <<Entry("id", "PRIMARY KEY", Absent, Absent),
      Entry("qty", "PUSH", Absent, Absent),
      Entry("status", "PULL", Absent, Absent)>>

\* Two pulled columns, every column with the same name on both sides.
PolicyPull ==
    <<Entry("id", "PRIMARY KEY", Absent, Absent),
      Entry("status", "PULL", Absent, Absent),
      Entry("stage", "PULL", Absent, Absent)>>

A == <<"A">>
B == <<"B">>
Open == <<"o", "p", "e", "n">>
Closed == <<"c", "l", "o", "s", "e", "d">>

\* Per policy: the values a column may hold on the relational side (sql,
\* by sheet column name) and on the sheet side (ss).
Ticket ==
    [config |-> PolicyTicket,
     sql |-> [name |-> {PyStr(A)}, status |-> {PyStr(Open), PyNone}],
     ss  |-> [name |-> {PyStr(A), PyStr(B)}, status |-> {PyStr(Closed), PyNone}]]

Ledger ==
    [config |-> PolicyLedger,
     sql |-> [Amount |-> {PyInt(12), PyFloat(12000), PyFloat(12500),
                          PyStr(<<"1", "2", ".", "0", "0">>)},
              Memo |-> {PyStr(<<"m">>)},
              Note |-> {PyStr(<<"n">>)},
              Skip |-> {PyStr(<<"x">>)}],
     ss  |-> [Amount |-> {PyStr(<<"1", "2", ".", "5", "0">>), PyFloat(12500)},
              Memo |-> {PyStr(<<"k">>)},
              Note |-> {PyStr(<<"n">>)},
              Skip |-> {PyStr(<<"y">>)}]]

\* The populated and the ignored column differ in every matched pair.
Desk ==
    [config |-> PolicyDesk,
     sql |-> [name |-> {PyStr(A)}, owner |-> {PyStr(A)}, status |-> {PyStr(Open)},
              memo |-> {PyStr(<<"m">>)}, skip |-> {PyStr(<<"x">>)}],
     ss  |-> [name |-> {PyStr(A), PyStr(B)}, owner |-> {PyStr(A), PyStr(B)},
              status |-> {PyStr(Open), PyStr(Closed)},
              memo |-> {PyStr(<<"k">>)}, skip |-> {PyStr(<<"y">>)}]]

\* A quantity or a state may be missing on either side.
Stock ==
    [config |-> PolicyStock,
     sql |-> [qty |-> {PyInt(5), PyNone}, status |-> {PyStr(Open), PyNone}],
     ss  |-> [qty |-> {PyInt(5), PyNone}, status |-> {PyStr(Closed), PyNone}]]

\* The remote values a pulled column may hold: a missing value over a
\* state, and over a missing stage a text with a quote, the empty text and
\* a number.
Quoted == <<"o", "'", "k">>
Pull ==
    [config |-> PolicyPull,
     sql |-> [status |-> {PyStr(Open)}, stage |-> {PyNone}],
     ss  |-> [status |-> {PyStr(Open), PyNone},
              stage |-> {PyNone, PyStr(Quoted), PyStr(<< >>), PyInt(7)}]]

\* A flag that may differ between the sides, a cost that does, and a name
\* that may.
Flags ==
    [config |-> PolicyFlags,
     sql |-> [done |-> {PyInt(0), PyInt(1)}, cost |-> {PyInt(12)},
              name |-> {PyStr(A)}],
     ss  |-> [done |-> {PyInt(0), PyInt(1)},
              cost |-> {PyStr(<<"1", "2", ".", "5", "0">>)},
              name |-> {PyStr(A), PyStr(B)}]]

\* A comment that may differ between the sides.
Remarks ==
    [config |-> PolicyRemarks,
     sql |-> [Comment |-> {PyStr(A), PyNone}],
     ss  |-> [Comment |-> {PyStr(A), PyStr(B), PyNone}]]

\* Two pulled columns over a fixed relational row: the remote state may be
\* missing and the remote stage may be another one.
Shared ==
    [config |-> PolicyPull,
     sql |-> [status |-> {PyStr(Open)}, stage |-> {PyStr(A)}],
     ss  |-> [status |-> {PyStr(Open), PyNone}, stage |-> {PyStr(A), PyStr(B)}]]

\* The non-key column names of a policy.
DataNames(config) ==
    {config[i].name : i \in {j \in 1..Len(config) : config[j].type # "PRIMARY KEY"}}

RECURSIVE RowsOver(_, _)
RowsOver(values, cols) ==
    IF cols = {} THEN {<< >>}
    ELSE LET c == CHOOSE x \in cols : TRUE
         IN  {(c :> v) @@ f : v \in values[c], f \in RowsOver(values, cols \ {c})}

\* Every assignment of one allowed value to each data column.
RowChoices(values) == RowsOver(values, DOMAIN values)

\* The stores hold at most one row per key, in key order.
KeyPicks(values) ==
    UNION {[K -> RowChoices(values)] : K \in SUBSET (1..NKeys)}

RECURSIVE Ascending(_)
Ascending(S) ==
    IF S = {} THEN << >>
    ELSE LET m == CHOOSE x \in S : \A y \in S : x <= y
         IN  <<m>> \o Ascending(S \ {m})

EntryNamed(config, name) == config[CHOOSE i \in 1..Len(config) : config[i].name = name]

\* The relational table for a pick: one column per policy entry under its
\* SQL name.
TableOf(config, pk, ks, pick) ==
    LET cols == [i \in 1..Len(config) |-> GetSql(config[i], config[i].name)]
    IN  Frame(cols,
              [r \in 1..Len(ks) |->
                  [c \in {cols[i] : i \in 1..Len(cols)} |->
                      LET e == config[CHOOSE i \in 1..Len(config) : cols[i] = c]
                      IN  IF e.name = pk THEN KeyOf(ks[r]) ELSE pick[ks[r]][e.name]]])

\* The sheet for a pick: one column per policy entry under its sheet name,
\* column ids 1.., row ids 101...
SheetOf(config, pk, ks, pick) ==
    [columns |-> [i \in 1..Len(config) |-> [title |-> config[i].name, id |-> i]],
     rows |-> [r \in 1..Len(ks) |->
                  [id |-> 100 + r,
                   cells |-> [i \in 1..Len(config) |->
                                 IF config[i].name = pk THEN KeyOf(ks[r])
                                 ELSE pick[ks[r]][config[i].name]]]]]

\* A sheet does not keep its key column unique: per key, one row or two
\* rows one after the other.
RowRuns(values) ==
    {<<a>> : a \in RowChoices(values)} \cup
    {<<a, b>> : a \in RowChoices(values), b \in RowChoices(values)}

RunPicks(values) ==
    UNION {[K -> RowRuns(values)] : K \in SUBSET (1..NKeys)}

\* The rows of a pick of runs, as [key, values], in key order.
RunRows(pick) ==
    Concat([i \in 1..Len(Ascending(DOMAIN pick)) |->
               [r \in 1..Len(pick[Ascending(DOMAIN pick)[i]]) |->
                   [key |-> Ascending(DOMAIN pick)[i],
                    values |-> pick[Ascending(DOMAIN pick)[i]][r]]]])

\* The sheet for a sequence of rows [key, values]: column ids 1.., row ids
\* 101...
SheetOfRows(config, pk, rows) ==
    [columns |-> [i \in 1..Len(config) |-> [title |-> config[i].name, id |-> i]],
     rows |-> [r \in 1..Len(rows) |->
                  [id |-> 100 + r,
                   cells |-> [i \in 1..Len(config) |->
                                 IF config[i].name = pk THEN KeyOf(rows[r].key)
                                 ELSE rows[r].values[config[i].name]]]]]

\* The sheet without the columns titled in titles.
DropColumns(sh, titles) ==
    LET kept == SelectSeq(sh.columns, LAMBDA c : c.title \notin titles)
        ids == {kept[i].id : i \in 1..Len(kept)}
    IN  [columns |-> kept,
         rows |-> [r \in 1..Len(sh.rows) |->
                      [id |-> sh.rows[r].id,
                       cells |-> [cid \in ids |-> sh.rows[r].cells[cid]]]]]

\* The policy and the two stores before a run, for a policy with its value
\* sets; the sheet lacks the columns of one member of drops.
InitStores(universe, drops) ==
    /\ columns_config = universe.config
    /\ \E p \in KeyPicks(universe.sql) :
          sql_table = TableOf(universe.config, InitPrimaryKeySs(universe.config),
                              Ascending(DOMAIN p), p)
    /\ \E p \in KeyPicks(universe.ss), d \in drops :
          sheet = DropColumns(SheetOf(universe.config,
                                      InitPrimaryKeySs(universe.config),
                                      Ascending(DOMAIN p), p), d)

\* The state before the first engine is built: no engine, a number of
\* passes the caller will run, and what the environment will let fail.
InitEngine(passes, fault_set) ==
    /\ phase = "new"
    /\ passes_left = passes
    /\ primary_key_ss = Absent
    /\ primary_key_sql = Absent
    /\ currency_columns = << >>
    /\ checkbox_columns = << >>
    /\ sheet_columns = << >>
    /\ df_ss = Frame(<< >>, << >>)
    /\ df_sql = Frame(<< >>, << >>)
    /\ done = {}
    /\ raised = NoneRaised
    /\ add_rows_calls = << >>
    /\ update_rows_calls = << >>
    /\ sql_calls = << >>
    /\ insert_sources = << >>
    /\ pass_log = << >>
    /\ faults \in fault_set
    /\ init_raised = "none"
    /\ loader = NoLoad

InitFaults(universe, passes, fault_set) ==
    InitStores(universe, {{}}) /\ InitEngine(passes, fault_set)

\* A run in which the environment lets nothing fail.
InitWith(universe, passes) == InitFaults(universe, passes, {NoFaults})

Next ==
    \/ Construct
    \/ merge_smartsheet_inserts
    \/ merge_smartsheet_updates
    \/ merge_sql_updates

\* One pass over the ticket policy, the three operations in any order.
InitTicket == InitWith(Ticket, 1)

Spec == InitTicket /\ [][Next]_vars

\* One pass over the ledger policy.
InitLedger == InitWith(Ledger, 1)

SpecLedger == InitLedger /\ [][Next]_vars

\* One pass over the ticket policy in which the load of the sheet or of
\* the table may fail.
LoadFaults == {[NoFaults EXCEPT !.load = l] : l \in {"none", "sheet", "table"}}

InitLoadFault == InitFaults(Ticket, 1, LoadFaults)

SpecLoadFault == InitLoadFault /\ [][Next]_vars

\* One pass over the ledger policy on a sheet that has every column of the
\* policy, or lacks the populated column, or lacks the pushed column.
MissingColumns == {{}, {"Memo"}, {"Amount"}}

InitSchema == InitStores(Ledger, MissingColumns) /\ InitEngine(1, {NoFaults})

SpecSchema == InitSchema /\ [][Next]_vars

\* One pass over the ticket policy in which the sheet's create-call, its
\* update-call, both or neither fail.
WriteFaults ==
    {[NoFaults EXCEPT !.add_rows = a, !.update_rows = u] : a, u \in BOOLEAN}

InitWriteFault == InitFaults(Ticket, 1, WriteFaults)

SpecWriteFault == InitWriteFault /\ [][Next]_vars

\* One pass over the desk policy.
InitDesk == InitWith(Desk, 1)

SpecDesk == InitDesk /\ [][Next]_vars

\* One pass over the stock policy.
InitStock == InitWith(Stock, 1)

SpecStock == InitStock /\ [][Next]_vars

\* One pass over the policy with a column per type constraint.
InitFlags == InitWith(Flags, 1)

SpecFlags == InitFlags /\ [][Next]_vars

\* One pass over the policy whose pulled column has two names.
InitRemarks == InitWith(Remarks, 1)

SpecRemarks == InitRemarks /\ [][Next]_vars

\* One pass over the pull policy.
InitPull == InitWith(Pull, 1)

SpecPull == InitPull /\ [][Next]_vars

\* Two passes in succession over the ticket policy, each with a fresh
\* engine, nothing else touching the stores in between.
InitTwice == InitWith(Ticket, 2)

NextTwice == Next \/ NewPass

SpecTwice == InitTwice /\ [][NextTwice]_vars


(***************************************************************************)
(* Batching: a table and a sheet of n matched rows, each with a changed    *)
(* PULL column, and one call of merge_sql_updates.                         *)
(***************************************************************************)
\* The largest number of pending relational updates.
MaxUpdates == 250

\* The row counts tried: those next to a multiple of ten.
BatchSizes == {n \in 0..MaxUpdates : n % 10 \in {0, 1, 9}}

BatchPick(n, status) == [k \in 1..n |-> [name |-> PyStr(A), status |-> status]]

InitBatchWith(sizes, fail_ats) ==
    /\ \E n \in sizes :
        /\ columns_config = PolicyTicket
        /\ sql_table = TableOf(PolicyTicket, "id", [k \in 1..n |-> k],
                              BatchPick(n, PyStr(Open)))
        /\ sheet = SheetOf(PolicyTicket, "id", [k \in 1..n |-> k],
                          BatchPick(n, PyStr(Closed)))
    /\ InitEngine(1, {[NoFaults EXCEPT !.sql_at = k] : k \in fail_ats})

InitBatch == InitBatchWith(BatchSizes, {0})

NextBatch == Construct \/ merge_sql_updates

SpecBatch == InitBatch /\ [][NextBatch]_vars

\* The same runs with a database server that fails on one call of
\* execute_sql_query, the first to the MaxFailAt-th, or on none.
MaxFailAt == 3

\* The row counts tried: those next to a multiple of fifty.
FaultSizes == {n \in 0..MaxUpdates : n % 50 \in {0, 1, 49}}

InitBatchFault == InitBatchWith(FaultSizes, 0..MaxFailAt)

SpecBatchFault == InitBatchFault /\ [][NextBatch]_vars

\* One pass of merge_sql_updates over a sheet that may hold a key twice.
InitShared ==
    /\ columns_config = Shared.config
    /\ \E p \in KeyPicks(Shared.sql) :
          sql_table = TableOf(Shared.config, InitPrimaryKeySs(Shared.config),
                              Ascending(DOMAIN p), p)
    /\ \E p \in RunPicks(Shared.ss) :
          sheet = SheetOfRows(Shared.config, InitPrimaryKeySs(Shared.config),
                              RunRows(p))
    /\ InitEngine(1, {NoFaults})

SpecShared == InitShared /\ [][NextBatch]_vars

(***************************************************************************)
(* Policies a caller may hand to __init__, well-formed or not.             *)
(***************************************************************************)
\* No PRIMARY KEY entry.
PolicyNoKey ==
    <<Entry("name", "PUSH", Absent, Absent),
      Entry("status", "PULL", Absent, Absent)>>

\* Two PRIMARY KEY entries.
PolicyTwoKeys ==
    <<Entry("id", "PRIMARY KEY", Absent, Absent),
      Entry("name", "PRIMARY KEY", Absent, Absent),
      Entry("status", "PULL", Absent, Absent)>>

\* An action outside the five the module documents.
PolicyUnknownAction ==
    <<Entry("id", "PRIMARY KEY", Absent, Absent),
      Entry("name", "EXPORT", Absent, Absent),
      Entry("status", "PULL", Absent, Absent)>>

KnownActions == {"PRIMARY KEY", "PUSH", "PULL", "POPULATE", "IGNORE"}

NoKey ==
    [config |-> PolicyNoKey,
     sql |-> [name |-> {PyStr(A)}, status |-> {PyStr(Open)}],
     ss  |-> [name |-> {PyStr(A), PyStr(B)}, status |-> {PyStr(Closed)}]]

TwoKeys ==
    [config |-> PolicyTwoKeys,
     sql |-> [id |-> {PyStr(<<"7">>)}, status |-> {PyStr(Open), PyNone}],
     ss  |-> [id |-> {PyStr(<<"7">>)}, status |-> {PyStr(Closed), PyNone}]]

UnknownAction ==
    [config |-> PolicyUnknownAction,
     sql |-> [name |-> {PyStr(A)}, status |-> {PyStr(Open)}],
     ss  |-> [name |-> {PyStr(A), PyStr(B)}, status |-> {PyStr(Closed)}]]

InitConfig ==
    \/ InitWith(NoKey, 1)
    \/ InitWith(TwoKeys, 1)
    \/ InitWith(UnknownAction, 1)
    \/ InitWith(Ticket, 1)

SpecConfig == InitConfig /\ [][Next]_vars


(***************************************************************************)
(* Loading the table from a dataframe: one call of dataframe_to_table on a *)
(* table that is missing or holds some rows, then a read.                  *)
(***************************************************************************)
\* The largest number of rows of a dataframe and of the table at the start.
MaxRows == 2

\* The rows of the dataframes: those of test_core.py line 12 in kind, and
\* one with a nan.
LoadRows ==
    {[Id |-> PyInt(1), Value |-> PyStr(<<"a", "a", "a">>)],
     [Id |-> PyInt(3), Value |-> PyNone],
     [Id |-> PyNaN, Value |-> PyStr(<<"b", "b", "b">>)]}

\* The dataframes handed to the loader: up to MaxRows rows over Id and
\* Value, and one frame with a column of another name.
Dataframes ==
    {InferObjects(Frame(<<"Id", "Value">>, rows)) :
        rows \in UNION {[1..n -> LoadRows] : n \in 0..MaxRows}}
    \cup {Frame(<<"Id", "Extra">>, <<[Id |-> PyInt(1), Extra |-> PyStr(<<"e">>)]>>)}

Methods == {"reload", "append", "create", "upsert"}

InitLoad ==
    /\ columns_config = << >>
    /\ sheet = [columns |-> << >>, rows |-> << >>]
    /\ sql_table \in {NoTable} \cup {to_sql(NoTable, df, "replace").table : df \in Dataframes}
    /\ InitEngine(0, {NoFaults})

NextLoad ==
    \/ \E df \in Dataframes, table_name \in TableNames, method \in Methods :
          DataframeToTable(df, table_name, method)
    \/ GetTableDataframe

SpecLoad == InitLoad /\ [][NextLoad]_vars


(***************************************************************************)
(* Properties.  Vocabulary shared by the properties below.                 *)
(***************************************************************************)
\* The operation has run in this pass and raised nothing.
Finished(op) == phase = "ready" /\ op \in done /\ raised[op] = "none"

\* The keys of the two snapshots of the pass.
SqlKeys == {df_sql.rows[i][primary_key_sql] : i \in 1..Len(df_sql.rows)}
SsKeys == {df_ss.rows[j][primary_key_ss] : j \in 1..Len(df_ss.rows)}

\* The pairs (relational row, remote row) of the snapshots with one key.
MatchedPairs ==
    {p \in (1..Len(df_sql.rows)) \X (1..Len(df_ss.rows)) :
        df_sql.rows[p[1]][primary_key_sql] = df_ss.rows[p[2]][primary_key_ss]}

\* The rows handed to the remote store's create-call, by (call, position).
CreatedRows ==
    UNION {{<<c, r>> : r \in 1..Len(add_rows_calls[c])} : c \in 1..Len(add_rows_calls)}

\* The cells the update-calls of the pass carry for a remote row id and a
\* sheet column.
UpdateCellsFor(row_id, column_name) ==
    UNION {UNION {{u[r].cells[c] : c \in {k \in 1..Len(u[r].cells) :
                                            u[r].cells[k].column_id =
                                                ColumnMap(sheet.columns)[column_name]}}
                  : r \in {k \in 1..Len(u) : u[k].id = row_id}}
           : u \in {update_rows_calls[k] : k \in 1..Len(update_rows_calls)}}

\* The SET items the batches of the pass carry for a key and a column.
SetItemsFor(key, column_name) ==
    UNION {UNION {{b[k].set[i] : i \in {x \in 1..Len(b[k].set) :
                                          b[k].set[x].column = column_name}}
                  : k \in {x \in 1..Len(b) : b[x].where_value = PyStrOf(key)}}
           : b \in {sql_calls[k] : k \in 1..Len(sql_calls)}}

RowIdOf(j) == Mils(df_ss.rows[j]["RowID"]) \div 1000

C2_InsertsExactlyAbsentKeys ==
    Finished("merge_smartsheet_inserts")
    => {insert_sources[p[1]][p[2]] : p \in CreatedRows} = SqlKeys \ SsKeys

(***************************************************************************)
(* C5.  Direction of authority, policy {id: PRIMARY_KEY, name: PUSH,       *)
(* status: PULL}: for a key in both snapshots the remote store receives    *)
(* the relational value of a differing PUSH column and nothing else, the   *)
(* relational store receives the remote value of a differing PULL column   *)
(* and nothing else, and neither store receives a write of the key column. *)
(* With the relational row (1, a, open) and the remote row (1, b, closed)  *)
(* the remote row's name becomes a and the relational status closed.       *)
(***************************************************************************)
RemoteReceives(i, j, e) ==
    LET cells == UpdateCellsFor(RowIdOf(j), e.name)
    IN  IF e.type = "PUSH" /\ ~PyEq(df_ss.rows[j][e.name], df_sql.rows[i][GetSql(e, e.name)])
        THEN cells # {} /\ \A c \in cells : c.value = df_sql.rows[i][GetSql(e, e.name)]
        ELSE cells = {}

RelationalReceives(i, j, e) ==
    LET items == SetItemsFor(df_sql.rows[i][primary_key_sql], GetSql(e, e.name))
        v == df_ss.rows[j][e.name]
    IN  IF e.type = "PULL" /\ ~PyEq(v, df_sql.rows[i][GetSql(e, e.name)])
        THEN /\ items # {}
             /\ \A it \in items :
                   IF IsNull(v) THEN it.null ELSE ~it.null /\ it.literal = v.s
        ELSE items = {}

TicketScenario ==
    /\ df_sql.rows = <<[id |-> KeyOf(1), name |-> PyStr(A), status |-> PyStr(Open)]>>
    /\ df_ss.rows = <<[RowID |-> PyInt(101), id |-> KeyOf(1), name |-> PyStr(B),
                       status |-> PyStr(Closed)]>>

C5_DirectionOfAuthority ==
    /\ Finished("merge_smartsheet_updates") =>
          /\ \A p \in MatchedPairs : \A k \in 1..Len(columns_config) :
                RemoteReceives(p[1], p[2], columns_config[k])
          /\ TicketScenario =>
                update_rows_calls =
                    << <<[id |-> 101,
                          cells |-> <<Cell(2, PyStr(A), "True", Absent)>>]>> >>
    /\ Finished("merge_sql_updates") =>
          /\ \A p \in MatchedPairs : \A k \in 1..Len(columns_config) :
                RelationalReceives(p[1], p[2], columns_config[k])
          /\ TicketScenario =>
                sql_calls =
                    << <<[set |-> <<[column |-> "status", null |-> FALSE,
                                     literal |-> Closed]>>,
                          where_column |-> "id",
                          where_value |-> <<"1">>]>> >>

\* The scenario's pass has run both update operations and each store got
\* its one write.
C5_Witness ==
    /\ TicketScenario
    /\ Finished("merge_smartsheet_updates")
    /\ Finished("merge_sql_updates")
    /\ Len(update_rows_calls) = 1
    /\ Len(sql_calls) = 1


(***************************************************************************)
(* C3.  Insert coverage: every relational row whose key is absent from the *)
(* remote snapshot appears in exactly one create-call of the pass, and the *)
(* row built for it holds one cell for each PUSH or POPULATE column, one   *)
(* cell for the PRIMARY_KEY column and no cell for a PULL or IGNORE column.*)
(***************************************************************************)
\* The number of cells a built row holds for a sheet column.
CellCount(row, column_name) ==
    Cardinality({k \in 1..Len(row.cells) :
                    row.cells[k].column_id = ColumnMap(sheet.columns)[column_name]})

CellsFollowPolicy(row) ==
    \A k \in 1..Len(columns_config) :
        CellCount(row, columns_config[k].name) =
            IF columns_config[k].type \in {"PUSH", "POPULATE", "PRIMARY KEY"}
            THEN 1 ELSE 0

\* The places in the create-calls of the rows built from a relational key.
CreatedFrom(key) == {p \in CreatedRows : insert_sources[p[1]][p[2]] = key}

C3_AbsentRowsCreatedOnce ==
    Finished("merge_smartsheet_inserts") =>
        \A key \in SqlKeys \ SsKeys :
            /\ Cardinality(CreatedFrom(key)) = 1
            /\ \A p \in CreatedFrom(key) : CellsFollowPolicy(add_rows_calls[p[1]][p[2]])

\* A pass has created the row of a key the remote snapshot lacks, under a
\* policy that holds all five actions.
C3_Witness ==
    /\ Finished("merge_smartsheet_inserts")
    /\ SqlKeys \ SsKeys # {}
    /\ SsKeys # {}
    /\ {columns_config[k].type : k \in 1..Len(columns_config)} = KnownActions
    /\ \E p \in CreatedRows : Len(add_rows_calls[p[1]][p[2]].cells) = 3

(***************************************************************************)
(* C4.  No-op on equal data: a matched pair whose PUSH and PULL columns    *)
(* are all normalized-equal produces no remote update row and no UPDATE    *)
(* statement.                                                              *)
(***************************************************************************)
\* Equality after the column's normalizer: CURRENCY values by their
\* two-decimal text, the others as they are, two nulls being equal.
NormalizedEqual(e, a, b) ==
    IF e.constraint = "CURRENCY" THEN CurrencyText(a) = CurrencyText(b)
    ELSE PyEq(a, b) \/ (IsNull(a) /\ IsNull(b))

PairEqual(i, j) ==
    \A k \in 1..Len(columns_config) :
        columns_config[k].type \in {"PUSH", "PULL"} =>
            NormalizedEqual(columns_config[k],
                            df_ss.rows[j][columns_config[k].name],
                            df_sql.rows[i][GetSql(columns_config[k],
                                                  columns_config[k].name)])

C4_EqualPairsProduceNothing ==
    \A p \in MatchedPairs : PairEqual(p[1], p[2]) =>
        /\ Finished("merge_smartsheet_updates") =>
              \A c \in 1..Len(update_rows_calls) :
                  \A r \in 1..Len(update_rows_calls[c]) :
                      update_rows_calls[c][r].id # RowIdOf(p[2])
        /\ Finished("merge_sql_updates") =>
              \A c \in 1..Len(sql_calls) : \A r \in 1..Len(sql_calls[c]) :
                  sql_calls[c][r].where_value #
                      PyStrOf(df_sql.rows[p[1]][primary_key_sql])

(***************************************************************************)
(* C9.  Currency comparison: for a PUSH column under the CURRENCY          *)
(* constraint the two sides are compared by their two-decimal text, so a   *)
(* relational 12.5 against a remote "12.50" is equal and no update of that *)
(* cell is queued.                                                         *)
(***************************************************************************)
CurrencyPushed ==
    {k \in 1..Len(columns_config) :
        columns_config[k].type = "PUSH" /\ columns_config[k].constraint = "CURRENCY"}

C9_CurrencyComparedByText ==
    Finished("merge_smartsheet_updates") =>
        \A p \in MatchedPairs : \A k \in CurrencyPushed :
            (CurrencyText(df_sql.rows[p[1]][GetSql(columns_config[k],
                                                   columns_config[k].name)])
                 = CurrencyText(df_ss.rows[p[2]][columns_config[k].name]))
            => UpdateCellsFor(RowIdOf(p[2]), columns_config[k].name) = {}

(***************************************************************************)
(* C10.  Currency cell value: a cell written to the remote store for a     *)
(* CURRENCY column, in a new row or in an update, carries the relational   *)
(* value as text with exactly two decimals -- 12, 12.0 and "12.00" all     *)
(* give "12.00", 12.5 gives "12.50".                                       *)
(***************************************************************************)
\* The amount a relational value denotes, in thousandths.
AmountOf(v) == IF v.t = "str" THEN ParseFloat(v.s) ELSE Mils(v)

\* cs reads digits, a point, two digits, and denotes the amount mils.
TwoDecimalTextOf(cs, mils) ==
    /\ Len(cs) >= 4
    /\ cs[Len(cs) - 2] = "."
    /\ AllDigits(SubSeq(cs, 1, Len(cs) - 3))
    /\ AllDigits(SubSeq(cs, Len(cs) - 1, Len(cs)))
    /\ CharsToNat(SubSeq(cs, 1, Len(cs) - 3)) * 1000
         + CharsToNat(SubSeq(cs, Len(cs) - 1, Len(cs))) * 10 = mils

CurrencyNames ==
    {columns_config[k].name : k \in {x \in 1..Len(columns_config) :
                                        columns_config[x].constraint = "CURRENCY"}}

NewCurrencyCells(row, column_name) ==
    {row.cells[k] : k \in {x \in 1..Len(row.cells) :
                              row.cells[x].column_id =
                                  ColumnMap(sheet.columns)[column_name]}}

SqlRowOf(key) == df_sql.rows[CHOOSE i \in 1..Len(df_sql.rows) :
                                df_sql.rows[i][primary_key_sql] = key]

PulledIndex == {k \in 1..Len(columns_config) : columns_config[k].type = "PULL"}

\* A snapshot row's key with its PULL values, by side.
SqlPulled(row) ==
    <<row[primary_key_sql],
      [k \in PulledIndex |-> row[GetSql(columns_config[k], columns_config[k].name)]]>>

SsPulled(row) ==
    <<row[primary_key_ss], [k \in PulledIndex |-> row[columns_config[k].name]]>>

\* The keys of both snapshots with a PULL column that differs.
PendingKeys ==
    LET ss == {SsPulled(df_ss.rows[j]) : j \in 1..Len(df_ss.rows)}
        keys == {x[1] : x \in ss}
    IN  {x[1] : x \in {y \in {SqlPulled(df_sql.rows[i]) : i \in 1..Len(df_sql.rows)} :
                          y[1] \in keys /\ y \notin ss}}

BatchesFor(n) ==
    /\ Len(sql_calls) = (n + 99) \div 100
    /\ \A c \in 1..Len(sql_calls) :
          Len(sql_calls[c]) = IF c < Len(sql_calls) THEN 100 ELSE n - 100 * (c - 1)
    /\ n = 250 => /\ Len(sql_calls) = 3
                  /\ Len(sql_calls[1]) = 100
                  /\ Len(sql_calls[2]) = 100
                  /\ Len(sql_calls[3]) = 50

C6_BatchesOfHundred ==
    Finished("merge_sql_updates") => BatchesFor(Cardinality(PendingKeys))

\* 250 pending updates have been flushed.
C6_Witness ==
    /\ Finished("merge_sql_updates")
    /\ Cardinality(PendingKeys) = 250
    /\ Len(sql_calls) = 3

(***************************************************************************)
(* C7.  Policy validation: constructing the engine raises                  *)
(* ConfigurationError when the policy holds no PRIMARY_KEY column or more  *)
(* than one, so an engine only exists for a policy with exactly one.       *)
(***************************************************************************)
C7_ConstructedWithOneKey ==
    phase = "ready" => Len(PrimaryKeyEntries(columns_config)) = 1

(***************************************************************************)
(* C8.  Policy validation: constructing the engine raises                  *)
(* ConfigurationError when a column's action is outside PRIMARY_KEY, PUSH, *)
(* PULL, POPULATE and IGNORE, so an engine only exists for a policy whose  *)
(* actions are all among the five.                                         *)
(***************************************************************************)
C8_ConstructedWithKnownActions ==
    phase = "ready" =>
        \A k \in 1..Len(columns_config) : columns_config[k].type \in KnownActions

(***************************************************************************)
(* C11.  A failed flush of merge_sql_updates: when the k-th call of        *)
(* execute_sql_query fails, the batches of the calls 1 .. k-1 stay         *)
(* applied to the table, no call after the k-th is made, and the           *)
(* operation ends with the exception of the k-th call.                     *)
(***************************************************************************)
\* The flushes a run without failure makes for n pending updates.
FlushesOf(n) == (n + sql_update_max_count - 1) \div sql_update_max_count

\* The k-th flush of the operation failed: it has run, the server fails on
\* its k-th call, and the pending updates need at least k flushes.
FlushFailedAt(k) ==
    /\ phase = "ready"
    /\ "merge_sql_updates" \in done
    /\ faults.sql_at = k
    /\ k \in 1..FlushesOf(Cardinality(PendingKeys))

\* The table holds the new status in the rows of the first m pending
\* updates and the old one in every other row.
AppliedUpTo(m) ==
    \A i \in 1..Len(sql_table.rows) :
        sql_table.rows[i]["status"] = IF i <= m THEN PyStr(Closed) ELSE PyStr(Open)

C11_FailedFlushEndsTheLoop ==
    \A k \in 1..MaxFailAt :
        FlushFailedAt(k) =>
            /\ raised["merge_sql_updates"] = "OperationalError"
            /\ Len(sql_calls) = k
            /\ AppliedUpTo(sql_update_max_count * (k - 1))

\* The second of three flushes failed, so the first hundred rows are
\* updated and the other 150 are not.
C11_Witness ==
    /\ FlushFailedAt(2)
    /\ Cardinality(PendingKeys) = 250
    /\ Len(sql_calls) = 2
    /\ sql_table.rows[100]["status"] = PyStr(Closed)
    /\ sql_table.rows[101]["status"] = PyStr(Open)

(***************************************************************************)
(* C12.  Loads before writes: when the load of the remote snapshot or of   *)
(* the relational snapshot fails, the pass is aborted with that exception  *)
(* and no create-call, update-call or SQL statement is ever issued; and a  *)
(* write is only ever issued by an engine whose two loads have succeeded.  *)
(***************************************************************************)
\* Some write has been issued in this pass.
AnyWrite == add_rows_calls # << >> \/ update_rows_calls # << >> \/ sql_calls # << >>

C12_LoadFailureAbortsThePass ==
    /\ faults.load # "none" =>
          /\ phase \in {"new", "failed"}
          /\ phase = "failed" => init_raised = LoadError(faults.load)
          /\ done = {}
          /\ ~AnyWrite
    /\ AnyWrite =>
          /\ phase = "ready"
          /\ init_raised = "none"
          /\ faults.load = "none"

\* The sheet was read and the load of the table then failed, with rows in
\* the table that the sheet lacks.
C12_Witness ==
    /\ phase = "failed"
    /\ faults.load = "table"
    /\ init_raised = "OperationalError"
    /\ Len(sql_table.rows) > Len(df_ss.rows)
    /\ ~AnyWrite

(***************************************************************************)
(* C13.  Column identifier resolver: resolving a policy column name that   *)
(* the sheet's column schema lacks fails with UnknownColumnError, and the  *)
(* write path being built then issues no create-call and no update-call.   *)
(***************************************************************************)
\* The titles of the sheet's columns as the engine fetched them.
SchemaTitles == {sheet_columns[i].title : i \in 1..Len(sheet_columns)}

\* The policy columns a new row gets a cell for, so whose identifier
\* build_smartsheet_row_new resolves.
InsertedNames ==
    {columns_config[i].name : i \in {j \in 1..Len(columns_config) :
        columns_config[j].type \in {"PUSH", "POPULATE", "PRIMARY KEY"}}}

\* merge_smartsheet_inserts has run, had a row to build, and the row has a
\* cell for a column the sheet lacks.
ResolvedUnknownColumn ==
    /\ phase = "ready"
    /\ "merge_smartsheet_inserts" \in done
    /\ Len(df_sql.rows) > 0
    /\ InsertedNames \ SchemaTitles # {}

C13_UnknownColumnError ==
    ResolvedUnknownColumn =>
        /\ raised["merge_smartsheet_inserts"] = "UnknownColumnError"
        /\ add_rows_calls = << >>

(***************************************************************************)
(* C14.  Remote-only rows: a remote row whose key the relational snapshot  *)
(* lacks causes no mutation on either side in any pass -- no update-call   *)
(* names it, it stays in the sheet with the values it had, no row with its *)
(* key appears in the table and no UPDATE statement names its key.         *)
(***************************************************************************)
\* The rows of the remote snapshot whose key the relational snapshot lacks.
OrphanRows ==
    {j \in 1..Len(df_ss.rows) : df_ss.rows[j][primary_key_ss] \notin SqlKeys}

\* The sheet holds the snapshot row j, one row with its id and its values.
StillInSheet(j) ==
    /\ Cardinality({i \in 1..Len(sheet.rows) : sheet.rows[i].id = RowIdOf(j)}) = 1
    /\ \A i \in 1..Len(sheet.rows) :
          sheet.rows[i].id = RowIdOf(j) =>
              \A c \in 1..Len(sheet.columns) :
                  sheet.rows[i].cells[sheet.columns[c].id] =
                      df_ss.rows[j][sheet.columns[c].title]

\* No update-call of the pass names the remote row id.
NotUpdated(row_id) ==
    \A c \in 1..Len(update_rows_calls) :
        \A k \in 1..Len(update_rows_calls[c]) : update_rows_calls[c][k].id # row_id

\* The table has no row with the key and no statement of the pass names it.
NotInTable(key) ==
    /\ \A i \in 1..Len(sql_table.rows) : sql_table.rows[i][primary_key_sql] # key
    /\ \A c \in 1..Len(sql_calls) :
          \A k \in 1..Len(sql_calls[c]) : sql_calls[c][k].where_value # PyStrOf(key)

C14_RemoteOnlyRowsUntouched ==
    phase = "ready" =>
        \A j \in OrphanRows :
            /\ NotUpdated(RowIdOf(j))
            /\ StillInSheet(j)
            /\ NotInTable(df_ss.rows[j][primary_key_ss])

\* All three operations have run in the second pass, writes were issued to
\* both sides, and a remote-only row sits next to a matched one.
C14_Witness ==
    /\ Len(pass_log) = 1
    /\ phase = "ready"
    /\ done = Operations
    /\ OrphanRows # {}
    /\ MatchedPairs # {}
    /\ add_rows_calls # << >>
    /\ pass_log[1].update_rows > 0
    /\ pass_log[1].sql > 0

(***************************************************************************)
(* C15.  One call per queue: in a pass the create-call is made at most     *)
(* once and carries all new rows, the update-call is made at most once and *)
(* carries all row updates, and neither is made for an empty queue.        *)
(***************************************************************************)
\* The matched pairs with a PUSH column whose two values differ.
PushPending ==
    {p \in MatchedPairs :
        \E k \in 1..Len(columns_config) :
            /\ columns_config[k].type = "PUSH"
            /\ df_sql.rows[p[1]][GetSql(columns_config[k], columns_config[k].name)]
                   # df_ss.rows[p[2]][columns_config[k].name]}

\* The calls made are one call of n rows, or none when n = 0.
OneCallOf(calls, n) ==
    /\ Len(calls) = IF n > 0 THEN 1 ELSE 0
    /\ \A c \in 1..Len(calls) : Len(calls[c]) = n

C15_OneCallPerQueue ==
    /\ Len(add_rows_calls) <= 1
    /\ Len(update_rows_calls) <= 1
    /\ Finished("merge_smartsheet_inserts") =>
           OneCallOf(add_rows_calls, Len(df_sql.rows))
    /\ Finished("merge_smartsheet_updates") =>
           OneCallOf(update_rows_calls, Cardinality(PushPending))

\* Both queues held two rows and each went out in one call.
C15_Witness ==
    /\ Finished("merge_smartsheet_inserts")
    /\ Finished("merge_smartsheet_updates")
    /\ Len(add_rows_calls) = 1
    /\ Len(add_rows_calls[1]) = 2
    /\ Len(update_rows_calls) = 1
    /\ Len(update_rows_calls[1]) = 2

(***************************************************************************)
(* C16.  Remote write failure: when the create-call or the update-call     *)
(* fails, it has been attempted exactly once, the client's exception is    *)
(* what the caller of the operation gets, and that operation makes no      *)
(* further remote call; when both fail the sheet is left as it was.        *)
(***************************************************************************)
\* The operation has run with a non-empty queue and its remote call failed.
CreateFailed ==
    /\ phase = "ready"
    /\ "merge_smartsheet_inserts" \in done
    /\ faults.add_rows
    /\ Len(df_sql.rows) > 0

UpdateFailed ==
    /\ phase = "ready"
    /\ "merge_smartsheet_updates" \in done
    /\ faults.update_rows
    /\ PushPending # {}

C16_RemoteFailureRaisedOnce ==
    /\ CreateFailed =>
          /\ Len(add_rows_calls) = 1
          /\ raised["merge_smartsheet_inserts"] = "ApiError"
    /\ UpdateFailed =>
          /\ Len(update_rows_calls) = 1
          /\ raised["merge_smartsheet_updates"] = "ApiError"
    /\ (phase = "ready" /\ faults.add_rows /\ faults.update_rows) =>
          \A i \in 1..Len(sheet.rows) :
              /\ sheet.rows[i].id = RowIdOf(i)
              /\ \A c \in 1..Len(sheet.columns) :
                    sheet.rows[i].cells[sheet.columns[c].id] =
                        df_ss.rows[i][sheet.columns[c].title]

\* Both remote calls failed in one pass, each on a queue of two rows.
C16_Witness ==
    /\ CreateFailed
    /\ UpdateFailed
    /\ Len(add_rows_calls[1]) = 2
    /\ Len(update_rows_calls[1]) = 2

(***************************************************************************)
(* C17.  The load methods of dataframe_to_table: after 'reload' the table  *)
(* holds exactly the dataframe's rows (it is truncated before the append), *)
(* after 'append' the rows it had followed by the dataframe's rows, after  *)
(* 'create' the dataframe's columns and rows in place of what it was; and  *)
(* get_table_dataframe then returns the rows the table holds.              *)
(***************************************************************************)
\* Two values are the same datum: both null, or equal.
SameValue(a, b) == (IsNull(a) /\ IsNull(b)) \/ PyEq(a, b)

\* The rows a are the rows b in the columns cols, in order.
SameRows(a, b, cols) ==
    /\ Len(a) = Len(b)
    /\ \A i \in 1..Len(a) : \A c \in cols : SameValue(a[i][c], b[i][c])

\* The rows of the table before the load; a missing table has none.
RowsBefore == IF loader.last.before = NoTable THEN << >> ELSE loader.last.before.rows

\* The load has ended without an exception.
Loaded(method) == loader.last.method = method /\ loader.last.error = "none"

C17_LoadMethods ==
    /\ Loaded("reload") =>
          SameRows(sql_table.rows, loader.last.df.rows, ColSet(loader.last.df))
    /\ Loaded("append") =>
          /\ Len(sql_table.rows) = Len(RowsBefore) + Len(loader.last.df.rows)
          /\ SubSeq(sql_table.rows, 1, Len(RowsBefore)) = RowsBefore
          /\ SameRows(SubSeq(sql_table.rows, Len(RowsBefore) + 1, Len(sql_table.rows)),
                      loader.last.df.rows, ColSet(loader.last.df))
    /\ Loaded("create") =>
          /\ sql_table.cols = loader.last.df.cols
          /\ SameRows(sql_table.rows, loader.last.df.rows, ColSet(loader.last.df))
    /\ (loader.last.method \in {"reload", "append", "create"}
          /\ loader.last.error = "none" /\ loader.read # Unread) =>
          /\ loader.read.cols = sql_table.cols
          /\ SameRows(loader.read.rows, sql_table.rows, ColSet(sql_table))

\* A table of two rows was reloaded with two other rows, one with a nan,
\* and read back.
C17_Witness ==
    /\ Loaded("reload")
    /\ Len(RowsBefore) = 2
    /\ Len(loader.last.df.rows) = 2
    /\ ~SameRows(RowsBefore, loader.last.df.rows, {"Id", "Value"})
    /\ \E i \in 1..2 : loader.last.df.rows[i]["Id"] = PyNaN
    /\ loader.read # Unread
    /\ Len(loader.read.rows) = 2

(***************************************************************************)
(* C18.  Changed cells only: every row of the update-call names the remote *)
(* row id of a matched pair and carries one cell for each PUSH column      *)
(* whose two values differ and for no other column; a matched pair with no *)
(* differing PUSH column gets no row.                                      *)
(***************************************************************************)
\* The policy column names of an action.
NamesOfType(type) ==
    {columns_config[k].name : k \in {x \in 1..Len(columns_config) :
                                        columns_config[x].type = type}}

\* The PUSH columns in which the matched pair p differs.
PushDiffering(p) ==
    {c \in NamesOfType("PUSH") : df_sql.rows[p[1]][c] # df_ss.rows[p[2]][c]}

\* The rows of the update-calls of the pass, by (call, position).
UpdatedRows ==
    UNION {{<<c, r>> : r \in 1..Len(update_rows_calls[c])} :
              c \in 1..Len(update_rows_calls)}

\* The column ids of the cells of an update row.
CellIds(u) == {update_rows_calls[u[1]][u[2]].cells[k].column_id :
                  k \in 1..Len(update_rows_calls[u[1]][u[2]].cells)}

C18_UpdateCarriesChangedPushCells ==
    Finished("merge_smartsheet_updates") =>
        /\ \A u \in UpdatedRows :
              \E p \in MatchedPairs : update_rows_calls[u[1]][u[2]].id = RowIdOf(p[2])
        /\ \A p \in MatchedPairs :
              \E rows \in {{u \in UpdatedRows :
                               update_rows_calls[u[1]][u[2]].id = RowIdOf(p[2])}} :
                 IF PushDiffering(p) = {} THEN rows = {}
                 ELSE /\ Cardinality(rows) = 1
                      /\ \A u \in rows :
                            /\ CellIds(u) = {ColumnMap(sheet_columns)[c] :
                                                c \in PushDiffering(p)}
                            /\ Len(update_rows_calls[u[1]][u[2]].cells) =
                                   Cardinality(PushDiffering(p))

\* One matched pair differs in one of its two PUSH columns and another in
\* both, and the update-call carries one cell for the first and two for
\* the second.
C18_Witness ==
    /\ Finished("merge_smartsheet_updates")
    /\ \E p, q \in MatchedPairs :
          /\ Cardinality(PushDiffering(p)) = 1
          /\ Cardinality(PushDiffering(q)) = 2
    /\ Len(update_rows_calls) = 1
    /\ Len(update_rows_calls[1]) = 2

(***************************************************************************)
(* C19.  Column actions bound the updates: an update row has cells for     *)
(* PUSH columns only, an UPDATE statement sets PULL columns only, and for  *)
(* a matched pair the POPULATE, IGNORE and PRIMARY KEY columns keep their  *)
(* values on both sides, whatever the two snapshots hold in them.          *)
(***************************************************************************)
\* The columns the update paths must leave alone.
KeptNames == NamesOfType("POPULATE") \cup NamesOfType("IGNORE") \cup NamesOfType("PRIMARY KEY")

\* The columns the statements of the pass set.
SetColumns ==
    UNION {UNION {{sql_calls[c][k].set[i].column : i \in 1..Len(sql_calls[c][k].set)}
                  : k \in 1..Len(sql_calls[c])}
           : c \in 1..Len(sql_calls)}

\* Both sides of the matched pair p hold the snapshot's values in the
\* columns to leave alone.
KeptInPair(p) ==
    /\ \A c \in KeptNames : sql_table.rows[p[1]][c] = df_sql.rows[p[1]][c]
    /\ \A i \in 1..Len(sheet.rows) :
          sheet.rows[i].id = RowIdOf(p[2]) =>
              \A c \in KeptNames :
                  sheet.rows[i].cells[ColumnMap(sheet_columns)[c]] = df_ss.rows[p[2]][c]

C19_UpdatesBoundByAction ==
    phase = "ready" =>
        /\ \A u \in UpdatedRows :
              CellIds(u) \subseteq {ColumnMap(sheet_columns)[c] : c \in NamesOfType("PUSH")}
        /\ SetColumns \subseteq NamesOfType("PULL")
        /\ \A p \in MatchedPairs : KeptInPair(p)

\* All operations have run, both update paths wrote, and a matched pair
\* differs in its populated and its ignored column.
C19_Witness ==
    /\ phase = "ready"
    /\ done = Operations
    /\ UpdatedRows # {}
    /\ SetColumns # {}
    /\ \E p \in MatchedPairs :
          /\ df_sql.rows[p[1]]["memo"] # df_ss.rows[p[2]]["memo"]
          /\ df_sql.rows[p[1]]["skip"] # df_ss.rows[p[2]]["skip"]

(***************************************************************************)
(* C20.  The key of a new row: in a new remote row built for a relational  *)
(* row whose key the remote snapshot lacks, the PRIMARY KEY cell carries   *)
(* that relational row's key, whether the key column has one name on the   *)
(* two sides or two.                                                       *)
(***************************************************************************)
\* The values of the PRIMARY KEY cells of the created row u = (call, row).
KeyCellValues(u) ==
    {add_rows_calls[u[1]][u[2]].cells[k].value :
        k \in {x \in 1..Len(add_rows_calls[u[1]][u[2]].cells) :
                  add_rows_calls[u[1]][u[2]].cells[x].column_id =
                      ColumnMap(sheet_columns)[primary_key_ss]}}

C20_NewRowCarriesKey ==
    Finished("merge_smartsheet_inserts") =>
        \A u \in CreatedRows :
            insert_sources[u[1]][u[2]] \notin SsKeys =>
                KeyCellValues(u) = {PyStr(PyStrOf(insert_sources[u[1]][u[2]]))}

(***************************************************************************)
(* C21.  Null equality: for a matched pair, a PUSH or PULL column that is  *)
(* null on both sides compares equal, so the update-call carries no cell   *)
(* for it and no UPDATE statement sets it.                                 *)
(***************************************************************************)
\* The column is null in both rows of the matched pair p.
NullOnBothSides(p, c) ==
    IsNull(df_sql.rows[p[1]][c]) /\ IsNull(df_ss.rows[p[2]][c])

C21_NullEqualsNull ==
    /\ Finished("merge_smartsheet_updates") =>
          \A p \in MatchedPairs : \A c \in NamesOfType("PUSH") :
              NullOnBothSides(p, c) => UpdateCellsFor(RowIdOf(p[2]), c) = {}
    /\ Finished("merge_sql_updates") =>
          \A p \in MatchedPairs : \A c \in NamesOfType("PULL") :
              NullOnBothSides(p, c) =>
                  SetItemsFor(df_sql.rows[p[1]][primary_key_sql], c) = {}

(***************************************************************************)
(* C22.  The UPDATE statement of a matched pair: it names the relational   *)
(* key of the row in its WHERE clause, sets exactly the PULL columns that  *)
(* differ, and writes the unquoted NULL for a differing PULL column whose  *)
(* remote value is missing; a pair with no differing PULL column gets no   *)
(* statement.                                                              *)
(***************************************************************************)
\* The statements handed to execute_sql_query, by (call, position).
SqlStatements ==
    UNION {{<<c, k>> : k \in 1..Len(sql_calls[c])} : c \in 1..Len(sql_calls)}

StatementAt(x) == sql_calls[x[1]][x[2]]

\* The PULL columns in which the matched pair p differs.
PullDiffering(p) ==
    {c \in NamesOfType("PULL") : df_sql.rows[p[1]][c] # df_ss.rows[p[2]][c]}

\* The statements of the pass for the key of the matched pair p.
StatementsFor(p) ==
    {x \in SqlStatements :
        /\ StatementAt(x).where_column = primary_key_sql
        /\ StatementAt(x).where_value = PyStrOf(df_sql.rows[p[1]][primary_key_sql])}

\* The statement x sets exactly the columns D, each once, and NULL for
\* those the remote row p lacks.
SetsExactly(x, D, p) ==
    /\ Len(StatementAt(x).set) = Cardinality(D)
    /\ {StatementAt(x).set[i].column : i \in 1..Len(StatementAt(x).set)} = D
    /\ \A i \in 1..Len(StatementAt(x).set) :
          IsNull(df_ss.rows[p[2]][StatementAt(x).set[i].column]) =>
              StatementAt(x).set[i].null

C22_StatementPerChangedRow ==
    Finished("merge_sql_updates") =>
        /\ \A x \in SqlStatements : \E p \in MatchedPairs : x \in StatementsFor(p)
        /\ \A p \in MatchedPairs :
              IF PullDiffering(p) = {} THEN StatementsFor(p) = {}
              ELSE /\ Cardinality(StatementsFor(p)) = 1
                   /\ \A x \in StatementsFor(p) : SetsExactly(x, PullDiffering(p), p)

\* One matched pair differs in one PULL column, where the remote value is
\* missing, and another in both.
C22_Witness ==
    /\ Finished("merge_sql_updates")
    /\ \E p, q \in MatchedPairs :
          /\ PullDiffering(p) = {"status"}
          /\ IsNull(df_ss.rows[p[2]]["status"])
          /\ PullDiffering(q) = {"status", "stage"}
    /\ Cardinality(SqlStatements) = 2

(***************************************************************************)
(* C23.  Quote escaping: merge_sql_updates never fails on the type of a    *)
(* remote value, and every remote value of a differing PULL column --      *)
(* text, number or boolean -- is embedded as a literal with each single    *)
(* quote doubled.                                                          *)
(***************************************************************************)
\* The remote value of column c in the matched pair p is present: neither
\* null nor the empty text.
RemotePresent(p, c) ==
    /\ ~IsNull(df_ss.rows[p[2]][c])
    /\ df_ss.rows[p[2]][c] # PyStr(<< >>)

\* Some statement for the pair sets the column to the literal of the
\* remote value's text with its quotes doubled.
EscapedLiteralSet(p, c) ==
    \E item \in SetItemsFor(df_sql.rows[p[1]][primary_key_sql], c) :
        /\ ~item.null
        /\ item.literal = ReplaceQuote(PyStrOf(df_ss.rows[p[2]][c]))

C23_LiteralsEscaped ==
    (phase = "ready" /\ "merge_sql_updates" \in done) =>
        /\ raised["merge_sql_updates"] = "none"
        /\ \A p \in MatchedPairs : \A c \in PullDiffering(p) :
              RemotePresent(p, c) => EscapedLiteralSet(p, c)

(***************************************************************************)
(* C24.  Fixed snapshots: each of the three operations leaves df_sql and   *)
(* df_ss as they were loaded at construction, and what it sends is         *)
(* computed from these two frames alone -- not from the stores, which the  *)
(* operations that ran before it may have changed -- whatever the order    *)
(* of the operations.                                                      *)
(***************************************************************************)
\* The step in which the operation runs.
OperationStep(op) == phase = "ready" /\ op \notin done /\ op \in done'

SnapshotsKept == df_sql' = df_sql /\ df_ss' = df_ss

\* What each operation sends when it ends without an exception, as computed
\* from the two snapshots.
InsertsOfSnapshots ==
    AddRowsCalls(NewRowsSs(columns_config, df_sql, df_ss, primary_key_sql,
                           primary_key_ss, currency_columns, checkbox_columns,
                           sheet_columns).rows)
UpdatesOfSnapshots ==
    UpdateRowsCalls(UpdateRowsSs(columns_config, df_sql, df_ss, primary_key_sql,
                                 primary_key_ss, currency_columns,
                                 sheet_columns).rows)
QueuedOfSnapshots ==
    PendingSqlUpdates(columns_config, df_sql, df_ss, primary_key_sql,
                      primary_key_ss).dict
StatementsOfSnapshots ==
    [i \in 1..Len(QueuedOfSnapshots) |-> SqlCmd(QueuedOfSnapshots[i], primary_key_sql)]

DecidedFromSnapshots ==
    /\ (OperationStep("merge_smartsheet_inserts")
            /\ raised'["merge_smartsheet_inserts"] = "none")
          => add_rows_calls' = add_rows_calls \o InsertsOfSnapshots
    /\ (OperationStep("merge_smartsheet_updates")
            /\ raised'["merge_smartsheet_updates"] = "none")
          => update_rows_calls' = update_rows_calls \o UpdatesOfSnapshots
    /\ (OperationStep("merge_sql_updates")
            /\ raised'["merge_sql_updates"] = "none")
          => Concat(sql_calls') = Concat(sql_calls) \o StatementsOfSnapshots

C24_FixedSnapshots ==
    [][(\E op \in Operations : OperationStep(op))
          => (SnapshotsKept /\ DecidedFromSnapshots)]_vars

\* All three operations have run and sent something, and both stores have
\* moved on from the snapshots.
C24_Witness ==
    /\ \A op \in Operations : Finished(op)
    /\ add_rows_calls # << >>
    /\ update_rows_calls # << >>
    /\ sql_calls # << >>
    /\ get_sheet_dataframe(sheet) # df_ss
    /\ get_table_dataframe(sql_table) # df_sql

(***************************************************************************)
(* C25.  Validation strictness follows the type constraint on both remote  *)
(* write paths: every cell of a pushed or populated column sent by         *)
(* merge_smartsheet_inserts or by merge_smartsheet_updates is strict when  *)
(* the column has no type constraint and non-strict when the column is a   *)
(* CHECKBOX or a CURRENCY.                                                 *)
(***************************************************************************)
StrictFor(column_name) ==
    IF EntryNamed(columns_config, column_name).constraint \in {"CHECKBOX", "CURRENCY"}
    THEN "False" ELSE "True"

\* The cells the create-calls of the pass carry for a sheet column.
CreateCellsFor(column_name) ==
    UNION {{add_rows_calls[x[1]][x[2]].cells[k] :
               k \in {i \in 1..Len(add_rows_calls[x[1]][x[2]].cells) :
                         add_rows_calls[x[1]][x[2]].cells[i].column_id =
                             ColumnMap(sheet.columns)[column_name]}}
           : x \in CreatedRows}

\* The cells the update-calls of the pass carry for a sheet column.
UpdateCellsOf(column_name) ==
    UNION {UpdateCellsFor(RowIdOf(j), column_name) : j \in 1..Len(df_ss.rows)}

InsertStrictness ==
    Finished("merge_smartsheet_inserts") =>
        \A c \in NamesOfType("PUSH") \cup NamesOfType("POPULATE") :
            \A cell \in CreateCellsFor(c) : cell.strict = StrictFor(c)

UpdateStrictness ==
    Finished("merge_smartsheet_updates") =>
        \A c \in NamesOfType("PUSH") :
            \A cell \in UpdateCellsOf(c) : cell.strict = StrictFor(c)

C25_StrictnessFollowsConstraint == InsertStrictness /\ UpdateStrictness

(***************************************************************************)
(* C26.  Every SET item of every UPDATE statement merge_sql_updates hands  *)
(* to the database names a PULL column by its relational name from the     *)
(* policy, also when the sheet names the column differently.               *)
(***************************************************************************)
\* The relational names of the policy's columns of a type.
SqlNamesOfType(type) ==
    {GetSql(columns_config[i], columns_config[i].name) :
        i \in {k \in 1..Len(columns_config) : columns_config[k].type = type}}

SetColumnsOf(x) == {StatementAt(x).set[i].column : i \in 1..Len(StatementAt(x).set)}

C26_SetNamesRelationalColumn ==
    (phase = "ready" /\ "merge_sql_updates" \in done) =>
        \A x \in SqlStatements : SetColumnsOf(x) \subseteq SqlNamesOfType("PULL")

(***************************************************************************)
(* C27.  Flush-loop invariant of merge_sql_updates: after every turn of    *)
(* the loop over the queued updates the statement counter is between 0     *)
(* and 99 and the buffer is empty exactly when the counter is 0; no batch  *)
(* handed to execute_sql_query is empty, and 100*k queued updates give     *)
(* exactly k batches.                                                      *)
(***************************************************************************)
RECURSIVE LoopStates(_, _, _)
\* The loop states after each turn of the loop over the entries, from st.
LoopStates(st, entries, pk_sql) ==
    IF entries = << >> THEN << >>
    ELSE IF Len(entries) = 1 THEN <<FlushStep(st, entries[1], pk_sql)>>
    ELSE LET h == Len(entries) \div 2
         IN  CHOOSE t2 \in {t1 \o LoopStates(t1[Len(t1)],
                                             SubSeq(entries, h + 1, Len(entries)),
                                             pk_sql) :
                                t1 \in {LoopStates(st, SubSeq(entries, 1, h),
                                                   pk_sql)}} : TRUE

\* The loop states of the loop the operation runs on the queued updates
\* and on the table as it is when the operation starts.
LoopStatesOf(queued) ==
    LoopStates([sql_cmds |-> << >>, sql_update_count |-> 0, calls |-> << >>,
                table |-> sql_table, error |-> "none", fail_at |-> faults.sql_at],
               queued, primary_key_sql)

LoopInvariant(st) ==
    /\ st.sql_update_count \in 0..(sql_update_max_count - 1)
    /\ (st.sql_cmds = << >>) <=> (st.sql_update_count = 0)

NoEmptyBatch(calls) == \A c \in 1..Len(calls) : calls[c] # << >>

C27_FlushLoopInvariant ==
    [][(OperationStep("merge_sql_updates") /\ raised'["merge_sql_updates"] = "none")
          => \E queued \in {QueuedOfSnapshots} :
               /\ \E states \in {LoopStatesOf(queued)} :
                     /\ Len(states) = Len(queued)
                     /\ \A n \in 1..Len(states) : LoopInvariant(states[n])
               /\ NoEmptyBatch(sql_calls')
               /\ Len(queued) % sql_update_max_count = 0
                     => Len(sql_calls') * sql_update_max_count = Len(queued)]_vars

\* Two hundred pending updates have gone out in two batches.
C27_Witness ==
    /\ Finished("merge_sql_updates")
    /\ Cardinality(PendingKeys) = 2 * sql_update_max_count
    /\ Len(sql_calls) = 2
    /\ NoEmptyBatch(sql_calls)

(***************************************************************************)
(* C28.  When no flush fails, the batches merge_sql_updates hands to       *)
(* execute_sql_query, put end to end, are the queued UPDATE statements in  *)
(* queue order, each of them exactly once: none is lost, duplicated or     *)
(* moved across a batch boundary.                                          *)
(***************************************************************************)
\* How often a statement occurs in a sequence of statements.
Occurrences(stmt, stmts) == Cardinality({i \in 1..Len(stmts) : stmts[i] = stmt})

\* The statements of the queued updates, in queue order.
StatementsOf(queued) == [i \in 1..Len(queued) |-> SqlCmd(queued[i], primary_key_sql)]

C28_QueuedSentOnceInOrder ==
    Finished("merge_sql_updates") =>
        \E queued \in {QueuedOfSnapshots}, sent \in {Concat(sql_calls)} :
            /\ sent = StatementsOf(queued)
            /\ \A i \in 1..Len(queued) :
                  Occurrences(SqlCmd(queued[i], primary_key_sql), sent) = 1

\* 250 statements have gone out in three batches, the 101st as the first
\* of the second batch.
C28_Witness ==
    /\ Finished("merge_sql_updates")
    /\ Len(sql_calls) = 3
    /\ \E queued \in {QueuedOfSnapshots} :
          /\ Len(queued) = 250
          /\ SqlCmd(queued[101], primary_key_sql) = sql_calls[2][1]
          /\ SqlCmd(queued[201], primary_key_sql) = sql_calls[3][1]

(***************************************************************************)
(* C29.  merge_sql_updates sends at most one UPDATE statement per          *)
(* relational key value in a pass; when several matched pairs share a key  *)
(* value, the statement carries the changes of the last such pair in join  *)
(* order (C29_LastPairWins: of the last pair, changed or not;              *)
(* C29_LastChangedPairWins: of the last pair that has a changed PULL       *)
(* column, and there is no statement when no pair has one).                *)
(***************************************************************************)
SameKey(p, q) == df_sql.rows[p[1]][primary_key_sql] = df_sql.rows[q[1]][primary_key_sql]

\* The order of the rows of the join: by relational row, then by sheet row.
JoinedBefore(p, q) == p[1] < q[1] \/ (p[1] = q[1] /\ p[2] < q[2])

SharesKey(p) == \E q \in MatchedPairs : q # p /\ SameKey(p, q)

OneStatementPerKey ==
    \A x \in SqlStatements : \A y \in SqlStatements :
        StatementAt(x).where_value = StatementAt(y).where_value => x = y

\* Each SET item of x is the remote value of the pair p: NULL for a missing
\* one, otherwise the value with its quotes doubled.
CarriesValuesOf(x, p) ==
    \A i \in 1..Len(StatementAt(x).set) :
        \E v \in {df_ss.rows[p[2]][StatementAt(x).set[i].column]} :
            IF IsNull(v) THEN StatementAt(x).set[i].null
            ELSE /\ ~StatementAt(x).set[i].null
                 /\ StatementAt(x).set[i].literal = ReplaceQuote(PyStrOf(v))

\* The one statement for the key of p writes exactly the changes of p.
WrittenFrom(p) ==
    /\ Cardinality(StatementsFor(p)) = 1
    /\ \A x \in StatementsFor(p) :
          SetsExactly(x, PullDiffering(p), p) /\ CarriesValuesOf(x, p)

LastOfKey(p) == \A q \in MatchedPairs : SameKey(p, q) => ~JoinedBefore(p, q)

LastChangedOfKey(p) ==
    /\ PullDiffering(p) # {}
    /\ \A q \in MatchedPairs :
          (SameKey(p, q) /\ PullDiffering(q) # {}) => ~JoinedBefore(p, q)

C29_LastPairWins ==
    Finished("merge_sql_updates") =>
        /\ OneStatementPerKey
        /\ \A p \in MatchedPairs :
              (SharesKey(p) /\ LastOfKey(p)) =>
                  IF PullDiffering(p) = {} THEN StatementsFor(p) = {}
                  ELSE WrittenFrom(p)

C29_LastChangedPairWins ==
    Finished("merge_sql_updates") =>
        /\ OneStatementPerKey
        /\ \A p \in MatchedPairs :
              SharesKey(p) =>
                  /\ LastChangedOfKey(p) => WrittenFrom(p)
                  /\ (\A q \in MatchedPairs : SameKey(p, q) => PullDiffering(q) = {})
                        => StatementsFor(p) = {}

\* Two pairs of one key differ in different columns, and the key has its
\* one statement.
C29_Witness ==
    /\ Finished("merge_sql_updates")
    /\ \E p \in MatchedPairs : \E q \in MatchedPairs :
          /\ SameKey(p, q) /\ JoinedBefore(p, q)
          /\ PullDiffering(p) = {"status"}
          /\ PullDiffering(q) = {"stage"}
          /\ Cardinality(StatementsFor(q)) = 1

(***************************************************************************)
(* C30.  A changed PULL column whose remote value is the empty text is     *)
(* written as NULL, as a missing remote value is; no SET item is a quoted  *)
(* empty literal.                                                          *)
(***************************************************************************)
EmptyText == PyStr(<< >>)

\* The pairs and PULL columns whose remote value is the empty text and
\* differs from the relational one.
EmptyRemote ==
    {x \in MatchedPairs \X NamesOfType("PULL") :
        /\ df_ss.rows[x[1][2]][x[2]] = EmptyText
        /\ x[2] \in PullDiffering(x[1])}

\* The SET items the pass wrote for the pair and column x.
ItemsOf(x) == SetItemsFor(df_sql.rows[x[1][1]][primary_key_sql], x[2])

C30_EmptyTextWrittenAsNull ==
    Finished("merge_sql_updates") =>
        /\ \A x \in EmptyRemote :
              ItemsOf(x) # {} /\ \A item \in ItemsOf(x) : item.null
        /\ \A y \in SqlStatements : \A i \in 1..Len(StatementAt(y).set) :
              StatementAt(y).set[i].null \/ StatementAt(y).set[i].literal # << >>

\* An empty remote stage has been written as NULL next to a missing remote
\* status.
C30_Witness ==
    /\ Finished("merge_sql_updates")
    /\ \E x \in EmptyRemote :
          /\ x[2] = "stage"
          /\ IsNull(df_ss.rows[x[1][2]]["status"])
          /\ \E item \in ItemsOf(x) : item.null

====
